---- MODULE Spec2Model ----
(***************************************************************************)
(* Host-side client of the Isotope board protocol: the command dispatcher  *)
(* (send_cmd / _send_cmd), the response registry (responses), the reader   *)
(* thread (_serial_reader_do_work), the heartbeat thread (_heartbeat),     *)
(* disconnect, and the port state machines built on them.                  *)
(*                                                                         *)
(* SpecComms models the threads step by step, one action per shared-memory *)
(* access, so that every interleaving CPython can produce is a behaviour.  *)
(* Time is kept by saturating timers advanced together by Tick.            *)
(***************************************************************************)
EXTENDS Integers, Sequences, FiniteSets, TLC

\* ------------------------------------------------------------------ bounds
MaxWire == 2        \* commands written to the transport in one run
MaxInbuf == 2       \* reply lines buffered on the serial input
RespTimeout == 2    \* resp_timeout, in clock ticks
HbInterval == 1     \* heart_beat_interval, in clock ticks
QueryDelay == 1     \* _is_busy_query_delay, in clock ticks
MaxCalls == 7       \* commands sent by port operations in one run
MaxPerSeq == 2      \* replies inserted under one sequence between two takes
MaxWaitTimeout == 1 \* longest timeout of wait_until_motion_completed, in ticks
MaxKey == 4         \* container keys tried run from -MaxKey to MaxKey
MaxMoves == 4       \* enable and rotate calls on the ports driven side by side

\* ------------------------------------------------------- program constants
SeqMax == 65535     \* largest sequence number before the counter wraps

\* Values the sequence counter starts a modelled session with: fresh, and
\* shortly before the wrap.
SeqStarts == {0, SeqMax - 2}

Senders == {"main", "hb"}
Threads == Senders \cup {"reader"}

\* CmdResponseType and the error strings of a Response
RES_CMD_ACK == "ACK"
RES_CMD_SUCCESS == "SUC"
RES_CMD_ABORT == "ABT"
RES_ERR_GEN == "ERR"

\* A Response object. The payload is the JSON value of the reply: "" (empty),
\* a JSON string ("0", "1") or a JSON number (written "#0", "#1").
Response(sequence_, payload_, error_) ==
    [seq |-> sequence_, payload |-> payload_, error |-> error_]

\* What a call hands back when it is no Response: None (timeout), the bare
\* sequence number (wait_for_answer = False), or an exception that propagates.
None == [seq |-> -1, payload |-> "", error |-> "None"]
Raised == [seq |-> -1, payload |-> "", error |-> "Raised"]
Running == [seq |-> -1, payload |-> "", error |-> "Running"]
SeqOnly(s) == [seq |-> s, payload |-> "", error |-> "SeqOnly"]

\* None for enable(pwm=None)
PwmNone == -1

\* The pwm arguments tried: None, 0, in range, the maximum, out of range
PwmArgs == {PwmNone, 0, 250, 1024, 2048}

\* The statuses the board may answer with (None: no answer in time)
PlainErrors == {RES_CMD_SUCCESS, RES_ERR_GEN, "None"}
StepErrors == {RES_CMD_ACK, RES_CMD_SUCCESS, RES_ERR_GEN, "None"}
PowerErrors == {RES_CMD_SUCCESS, RES_CMD_ACK, RES_ERR_GEN, "None"}

IsResponse(r) == r.error \in {RES_CMD_ACK, RES_CMD_SUCCESS, RES_CMD_ABORT, RES_ERR_GEN}

\* INC_ERR_NON_JSON_RESPONSE, "error definition when non-JSON response is
\* received"
INC_ERR_NON_JSON_RESPONSE == "ERRINC1"

\* A line that json.loads cannot parse, or that lacks one of the three keys
Garbled == [seq |-> -1, payload |-> "", error |-> "Garbled"]

\* _unpack_response(resp): the Response built from the line, or None when
\* anything in building it raises.
unpack_response(line) == IF IsResponse(line) THEN line ELSE None

VARIABLES
    ser,              \* "none" | "open" | "closed": self.ser is None, or is_open
    comms_busy,       \* self._comms_busy
    sequence,         \* self.sequence
    responses,        \* self.responses: sequence number -> Response
    sinceComm,        \* ticks since last_comm_tick, saturating at HbInterval
    pc,               \* position of each thread
    cmd_sequence,     \* send_cmd's local cmd_sequence, per sender
    tmp,              \* value loaded by `self.sequence += 1`, per sender
    wait_for_answer,  \* send_cmd's argument, per sender
    waitElapsed,      \* perf_counter() - time_started, saturating, per sender
    result,           \* what the sender's last send_cmd handed back
    resp_s,           \* the reader's local line
    wire,             \* sequence numbers of the frames written, oldest first
    inbuf,            \* lines the board has sent that are not read yet
    devNext,          \* index in wire of the next frame the board handles
    motor,            \* the MotorPort object's fields
    sinceQuery,       \* perf_counter() - _last_is_busy_query_time, saturating
    power,            \* the PowerOutputPort object's fields
    board,            \* the board's motor driver: moving, and under which sequence
    pending,          \* completion notification sent by the board, not read yet
    last,             \* the last port operation: name, return value, replies
    calls,            \* commands sent by the port operations so far
    initial,          \* value of the sequence counter before the first of them
    lastSeq,          \* sequence number the latest command carried
    motionDone,       \* is_motion_completed returned True since the last ACK
    history,          \* per sequence: the replies inserted since the last take
    phase,            \* how far connect() has come on this object
    min_firmware,     \* __minimum_firmware__
    board_firmware,   \* self.board_firmware, <<>> while not set
    who_i_am,         \* the Who_I_am payload _verify_firmware got last
    waiting,          \* wait_until_motion_completed: position, timeout, time spent
    containers,       \* the port containers, as their constructors left them
    item,             \* the outcome of the last container[key]
    writer,           \* the thread that wrote each frame of wire
    ports,            \* Motor._ports: each MotorPort's enabled, busy, in-flight sequence
    moving            \* board: per motor, the sequence of the motion under way

commsVars == <<ser, comms_busy, sequence, responses, sinceComm>>
thrVars == <<pc, cmd_sequence, tmp, wait_for_answer, waitElapsed, result, resp_s>>
devVars == <<wire, inbuf, devNext>>
\* What only the registry and life-cycle specifications move.
handshakeVars == <<history, phase, min_firmware, board_firmware, who_i_am>>
\* What the engine's threads and the port operations never assign, next to
\* the record of who wrote which frame, which only a write extends
portObjs == <<containers, item, writer, ports, moving>>
extVars == <<handshakeVars, waiting, portObjs>>
portVars == <<motor, sinceQuery, power, board, pending, last, calls, initial,
              lastSeq, motionDone, extVars>>
vars == <<commsVars, thrVars, devVars, portVars>>

\* ------------------------------------------------------ response registry
EmptyRegistry == [s \in {} |-> None]

\* A first-write-wins registry: an entry already stored is kept.
InsertKeepsOld(reg, r) ==
    [s \in (DOMAIN reg) \cup {r.seq} |-> IF s \in DOMAIN reg THEN reg[s] ELSE r]

\* self.responses[resp.sequence] = resp
Insert(reg, r) ==
    [s \in (DOMAIN reg) \cup {r.seq} |-> IF s = r.seq THEN r ELSE reg[s]]

\* self.responses.pop(seq), for seq in the registry
Pop(reg, s) == [k \in (DOMAIN reg) \ {s} |-> reg[k]]

\* The wrap taken one value early.
WrapEarly(s) == IF s >= SeqMax THEN 0 ELSE s

\* the wrap of send_cmd: self.sequence > 65535 resets the counter to 0
Wrap(s) == IF s > SeqMax THEN 0 ELSE s

\* is_connected()
is_connected == ser = "open"

\* ---------------------------------------------------------------- send_cmd
\* The caller thread enters send_cmd: cmd_sequence = self.sequence.
MainCallSend(w) ==
    /\ pc["main"] = "idle"
    /\ Len(wire) < MaxWire
    /\ pc' = [pc EXCEPT !["main"] = "s_spin"]
    /\ cmd_sequence' = [cmd_sequence EXCEPT !["main"] = sequence]
    /\ wait_for_answer' = [wait_for_answer EXCEPT !["main"] = w]
    /\ result' = [result EXCEPT !["main"] = Running]
    /\ UNCHANGED <<commsVars, tmp, waitElapsed, resp_s, devVars>>
    /\ UNCHANGED portVars

\* _send_cmd: `while self._comms_busy: pass` falls through.
SendSpin(t) ==
    /\ pc[t] = "s_spin"
    /\ ~comms_busy
    /\ pc' = [pc EXCEPT ![t] = "s_set"]
    /\ UNCHANGED <<commsVars, cmd_sequence, tmp, wait_for_answer, waitElapsed,
                   result, resp_s, devVars>>
    /\ UNCHANGED portVars

\* _send_cmd: self._comms_busy = True
SendSetBusy(t) ==
    /\ pc[t] = "s_set"
    /\ comms_busy' = TRUE
    /\ pc' = [pc EXCEPT ![t] = "s_write"]
    /\ UNCHANGED <<ser, sequence, responses, sinceComm, cmd_sequence, tmp,
                   wait_for_answer, waitElapsed, result, resp_s, devVars>>
    /\ UNCHANGED portVars

\* Where a sender goes when its send_cmd ends: the caller is idle again (or,
\* inside connect(), _verify_firmware goes on), the heartbeat goes round its
\* loop; an exception the heartbeat does not catch ends the heartbeat thread.
AfterReturn(t) ==
    IF t = "main" THEN (IF phase = "handshake" THEN "c_verify" ELSE "idle")
    ELSE "hb_loop"
AfterUncaught(t) ==
    IF t = "main" THEN (IF phase = "handshake" THEN "c_verify" ELSE "idle")
    ELSE "hb_done"

\* _send_cmd, inside the section guarded by _comms_busy: ser.flush();
\* ser.write(...); self._comms_busy = False; last_comm_tick = perf_counter().
\* On a closed port the write raises: the handler clears _comms_busy and
\* re-raises (the heartbeat catches the SerialException and loops).
SendWrite(t) ==
    /\ pc[t] = "s_write"
    /\ comms_busy' = FALSE
    /\ IF ser = "open"
       THEN /\ wire' = Append(wire, cmd_sequence[t])
            /\ writer' = Append(writer, t)
            /\ sinceComm' = 0
            /\ pc' = [pc EXCEPT ![t] = "s_load"]
            /\ UNCHANGED <<result, cmd_sequence>>
       ELSE /\ pc' = [pc EXCEPT ![t] = AfterReturn(t)]
            /\ result' = [result EXCEPT ![t] = Raised]
            /\ cmd_sequence' = [cmd_sequence EXCEPT ![t] = 0]
            /\ UNCHANGED <<wire, writer, sinceComm>>
    /\ UNCHANGED <<ser, sequence, responses, tmp, wait_for_answer, waitElapsed,
                   resp_s, inbuf, devNext>>
    /\ UNCHANGED <<motor, sinceQuery, power, board, pending, last, calls, initial,
                   lastSeq, motionDone, handshakeVars, waiting, containers, item,
                   ports, moving>>

\* An error handler that leaves the flag as it found it.
FlagKept(busy) == busy

\* The handlers of _send_cmd and _read_serial: `self._comms_busy = False`
\* before the exception is raised again.
FlagInHandler(busy) == FALSE

\* _send_cmd on an open port whose flush() or write() raises (a write
\* timeout, a device error): the handler clears _comms_busy and re-raises a
\* SerialException; nothing reaches the wire, last_comm_tick is not set.
SendWriteFails(t) ==
    /\ pc[t] = "s_write"
    /\ ser = "open"
    /\ comms_busy' = FlagInHandler(comms_busy)
    /\ pc' = [pc EXCEPT ![t] = AfterReturn(t)]
    /\ result' = [result EXCEPT ![t] = Raised]
    /\ cmd_sequence' = [cmd_sequence EXCEPT ![t] = 0]
    /\ UNCHANGED <<ser, sequence, responses, sinceComm, tmp, wait_for_answer,
                   waitElapsed, resp_s, devVars>>
    /\ UNCHANGED portVars

\* send_cmd: `self.sequence += 1` loads the counter ...
SendLoadSequence(t) ==
    /\ pc[t] = "s_load"
    /\ tmp' = [tmp EXCEPT ![t] = sequence]
    /\ pc' = [pc EXCEPT ![t] = "s_store"]
    /\ UNCHANGED <<commsVars, cmd_sequence, wait_for_answer, waitElapsed, result,
                   resp_s, devVars>>
    /\ UNCHANGED portVars

\* ... and stores the loaded value plus one.
SendStoreSequence(t) ==
    /\ pc[t] = "s_store"
    /\ sequence' = tmp[t] + 1
    /\ tmp' = [tmp EXCEPT ![t] = 0]
    /\ pc' = [pc EXCEPT ![t] = "s_wrap"]
    /\ UNCHANGED <<ser, comms_busy, responses, sinceComm, cmd_sequence,
                   wait_for_answer, waitElapsed, result, resp_s, devVars>>
    /\ UNCHANGED portVars

\* send_cmd: the wrap, then either the bare sequence number is returned or
\* wait_and_retrieve_response starts (time_started = perf_counter()).
SendWrap(t) ==
    /\ pc[t] = "s_wrap"
    /\ sequence' = Wrap(sequence)
    /\ IF wait_for_answer[t]
       THEN /\ pc' = [pc EXCEPT ![t] = "w_check"]
            /\ UNCHANGED <<result, cmd_sequence>>
       ELSE /\ pc' = [pc EXCEPT ![t] = AfterReturn(t)]
            /\ result' = [result EXCEPT ![t] = SeqOnly(cmd_sequence[t])]
            /\ cmd_sequence' = [cmd_sequence EXCEPT ![t] = 0]
    /\ waitElapsed' = [waitElapsed EXCEPT ![t] = 0]
    /\ UNCHANGED <<ser, comms_busy, responses, sinceComm, tmp, wait_for_answer,
                   resp_s, devVars>>
    /\ UNCHANGED portVars

\* ----------------------------------------------- wait_and_retrieve_response
\* The loop test of wait_and_retrieve_response: (now - time_started) < timeout
WaitExpired(elapsed) == ~(elapsed < RespTimeout)

\* One round of `while (perf_counter() - time_started) < self.resp_timeout`:
\* past the timeout the loop ends and None is returned; otherwise
\* retrieve_response tests `seq in self.responses`, and when the entry is
\* absent the caller sleeps serial_reader_delay and comes round again.
WaitCheck(t) ==
    /\ pc[t] = "w_check"
    /\ IF WaitExpired(waitElapsed[t])
       THEN /\ pc' = [pc EXCEPT ![t] = AfterReturn(t)]
            /\ result' = [result EXCEPT ![t] = None]
            /\ cmd_sequence' = [cmd_sequence EXCEPT ![t] = 0]
            /\ waitElapsed' = [waitElapsed EXCEPT ![t] = 0]
       ELSE /\ cmd_sequence[t] \in DOMAIN responses
            /\ pc' = [pc EXCEPT ![t] = "w_pop"]
            /\ UNCHANGED <<result, cmd_sequence, waitElapsed>>
    /\ UNCHANGED <<commsVars, tmp, wait_for_answer, resp_s, devVars>>
    /\ UNCHANGED portVars

\* retrieve_response: `return self.responses.pop(seq)`; pop raises KeyError
\* when the entry is no longer there.
WaitPop(t) ==
    /\ pc[t] = "w_pop"
    /\ IF cmd_sequence[t] \in DOMAIN responses
       THEN /\ responses' = Pop(responses, cmd_sequence[t])
            /\ result' = [result EXCEPT ![t] = responses[cmd_sequence[t]]]
            /\ pc' = [pc EXCEPT ![t] = AfterReturn(t)]
       ELSE /\ result' = [result EXCEPT ![t] = Raised]
            /\ pc' = [pc EXCEPT ![t] = AfterUncaught(t)]
            /\ UNCHANGED responses
    /\ cmd_sequence' = [cmd_sequence EXCEPT ![t] = 0]
    /\ waitElapsed' = [waitElapsed EXCEPT ![t] = 0]
    /\ UNCHANGED <<ser, comms_busy, sequence, sinceComm, tmp, wait_for_answer,
                   resp_s, devVars>>
    /\ UNCHANGED portVars

\* ---------------------------------------------------------------- heartbeat
\* _heartbeat: `while self.comms.is_connected()`; inside, a command sent less
\* than heart_beat_interval ago means sleep and continue, otherwise send_cmd
\* is entered with its default wait_for_answer=True.
Heartbeat ==
    /\ pc["hb"] = "hb_loop"
    /\ IF ~is_connected
       THEN /\ pc' = [pc EXCEPT !["hb"] = "hb_done"]
            /\ UNCHANGED <<cmd_sequence, wait_for_answer, result>>
       ELSE /\ ~(sinceComm < HbInterval)
            /\ Len(wire) < MaxWire
            /\ pc' = [pc EXCEPT !["hb"] = "s_spin"]
            /\ cmd_sequence' = [cmd_sequence EXCEPT !["hb"] = sequence]
            /\ wait_for_answer' = [wait_for_answer EXCEPT !["hb"] = TRUE]
            /\ result' = [result EXCEPT !["hb"] = Running]
    /\ UNCHANGED <<commsVars, tmp, waitElapsed, resp_s, devVars>>
    /\ UNCHANGED portVars

\* ------------------------------------------------------------------- reader
\* _serial_reader_do_work: `while self.is_connected()`
ReaderLoop ==
    /\ pc["reader"] = "r_loop"
    /\ pc' = [pc EXCEPT !["reader"] = IF is_connected THEN "r_waitopen" ELSE "r_done"]
    /\ UNCHANGED <<commsVars, cmd_sequence, tmp, wait_for_answer, waitElapsed,
                   result, resp_s, devVars>>
    /\ UNCHANGED portVars

\* _serial_reader_do_work: `while not self.ser.is_open: time.sleep(0.01)` is
\* left only once the port is open; then _read_serial's
\* `while self._comms_busy: pass` falls through.
ReaderWaitOpen ==
    /\ pc["reader"] = "r_waitopen"
    /\ ser = "open"
    /\ ~comms_busy
    /\ pc' = [pc EXCEPT !["reader"] = "r_avail"]
    /\ UNCHANGED <<commsVars, cmd_sequence, tmp, wait_for_answer, waitElapsed,
                   result, resp_s, devVars>>
    /\ UNCHANGED portVars

\* _read_serial: `if self.ser.in_waiting > 0: self._comms_busy = True`.
\* in_waiting raises on a closed port; the reader's handler then breaks out
\* of the loop because the port is not open. With nothing waiting the line
\* is "" and nothing is inserted.
ReaderAvail ==
    /\ pc["reader"] = "r_avail"
    /\ IF ser # "open"
       THEN /\ pc' = [pc EXCEPT !["reader"] = "r_done"]
            /\ UNCHANGED comms_busy
       ELSE IF Len(inbuf) > 0
       THEN /\ pc' = [pc EXCEPT !["reader"] = "r_readline"]
            /\ comms_busy' = TRUE
       ELSE /\ pc' = [pc EXCEPT !["reader"] = "r_loop"]
            /\ UNCHANGED comms_busy
    /\ UNCHANGED <<ser, sequence, responses, sinceComm, cmd_sequence, tmp,
                   wait_for_answer, waitElapsed, result, resp_s, devVars>>
    /\ UNCHANGED portVars

\* _read_serial, inside the section guarded by _comms_busy:
\* resp = self.ser.readline(); self._comms_busy = False. On a closed port
\* readline raises, the handler clears _comms_busy and the reader breaks out
\* of its loop.
ReaderReadline ==
    /\ pc["reader"] = "r_readline"
    /\ comms_busy' = FALSE
    /\ IF ser = "open"
       THEN /\ resp_s' = Head(inbuf)
            /\ inbuf' = Tail(inbuf)
            /\ pc' = [pc EXCEPT !["reader"] = "r_insert"]
       ELSE /\ pc' = [pc EXCEPT !["reader"] = "r_done"]
            /\ UNCHANGED <<resp_s, inbuf>>
    /\ UNCHANGED <<ser, sequence, responses, sinceComm, cmd_sequence, tmp,
                   wait_for_answer, waitElapsed, result, wire, devNext>>
    /\ UNCHANGED portVars

\* _serial_reader_do_work: resp = self._unpack_response(resp_s);
\* if resp is not None: self.responses[resp.sequence] = resp
ReaderInsert ==
    /\ pc["reader"] = "r_insert"
    /\ responses' = IF unpack_response(resp_s) # None
                    THEN Insert(responses, unpack_response(resp_s))
                    ELSE responses
    /\ resp_s' = None
    /\ pc' = [pc EXCEPT !["reader"] = "r_loop"]
    /\ UNCHANGED <<ser, comms_busy, sequence, sinceComm, cmd_sequence, tmp,
                   wait_for_answer, waitElapsed, result, devVars>>
    /\ UNCHANGED portVars

\* The reader's handler breaks out of the loop on any error.
BreakAlways(s) == "r_done"

\* _serial_reader_do_work, the handler around _read_serial:
\* `if self.ser.is_open: continue` / `else: break`
AfterReadError(s) == IF s = "open" THEN "r_loop" ELSE "r_done"

ReadFaults == {"in_waiting", "readline", "decode"}

\* _read_serial raises with the port still open: ser.in_waiting raises
\* before _comms_busy is set; ser.readline() raises and leaves the line
\* unread; or .decode('utf-8') raises on the line it has read. The handler
\* inside _read_serial clears _comms_busy and re-raises.
ReaderFault(kind) ==
    /\ ser = "open"
    /\ pc["reader"] = (IF kind = "in_waiting" THEN "r_avail" ELSE "r_readline")
    /\ kind = "decode" => Len(inbuf) > 0
    /\ comms_busy' = (IF kind = "in_waiting" THEN comms_busy
                      ELSE FlagInHandler(comms_busy))
    /\ inbuf' = (IF kind = "decode" THEN Tail(inbuf) ELSE inbuf)
    /\ pc' = [pc EXCEPT !["reader"] = AfterReadError(ser)]
    /\ UNCHANGED <<ser, sequence, responses, sinceComm, cmd_sequence, tmp,
                   wait_for_answer, waitElapsed, result, resp_s, wire, devNext>>
    /\ UNCHANGED portVars

\* --------------------------------------------------------------- disconnect
\* The port after IsotopeCommsProtocolBase.disconnect: an open port is
\* closed, a closed one is left alone, and with self.ser = None the
\* AttributeError of `self.ser.is_open` is swallowed by `except: pass`.
AfterClose(s) == IF s = "open" THEN "closed" ELSE s

\* IsotopeCommsProtocolBase.disconnect, called when no other call of the
\* caller thread is under way
DisconnectClose ==
    /\ pc["main"] \in {"idle", "disc_done"}
    /\ ser' = AfterClose(ser)
    /\ pc' = [pc EXCEPT !["main"] = "d_join"]
    /\ UNCHANGED <<comms_busy, sequence, responses, sinceComm, cmd_sequence, tmp,
                   wait_for_answer, waitElapsed, result, resp_s, devVars>>
    /\ UNCHANGED portVars

\* IsotopeCommsProtocol.disconnect: self.serial_reader_thread.join() returns
\* once the reader thread has ended; on a thread that was never started it
\* raises RuntimeError at once.
JoinSkipped == TRUE

JoinRaises == pc["reader"] = "r_new"

JoinReturns == JoinRaises \/ pc["reader"] = "r_done"

\* disconnect with its exceptions let through.
DisconnectPropagates(raised) == IF raised THEN Raised ELSE None

\* What disconnect() hands back: both the close and the join sit inside
\* try/except: pass, so the call returns None whatever was raised.
DisconnectOutcome(raised) == None

DisconnectJoin ==
    /\ pc["main"] = "d_join"
    /\ JoinReturns
    /\ pc' = [pc EXCEPT !["main"] = "disc_done"]
    /\ result' = [result EXCEPT !["main"] = DisconnectOutcome(ser = "none" \/ JoinRaises)]
    /\ UNCHANGED <<commsVars, cmd_sequence, tmp, wait_for_answer, waitElapsed,
                   resp_s, devVars>>
    /\ UNCHANGED portVars

\* -------------------------------------------------------------------- board
\* The board answers the next frame it received with one reply line ...
BoardReply(err) ==
    /\ devNext <= Len(wire)
    /\ Len(inbuf) < MaxInbuf
    /\ inbuf' = Append(inbuf, Response(wire[devNext], "", err))
    /\ devNext' = devNext + 1
    /\ UNCHANGED <<commsVars, thrVars, wire>>
    /\ UNCHANGED portVars

\* The board's answer to the next frame, its payload standing for what the
\* command asked: the answer to a heartbeat, or to the caller's command.
BoardAnswers ==
    /\ devNext <= Len(wire)
    /\ Len(inbuf) < MaxInbuf
    /\ inbuf' = Append(inbuf, Response(wire[devNext], writer[devNext], RES_CMD_SUCCESS))
    /\ devNext' = devNext + 1
    /\ UNCHANGED <<commsVars, thrVars, wire>>
    /\ UNCHANGED portVars

\* ... or the reply arrives as a line that is no reply record ...
BoardGarbles ==
    /\ devNext <= Len(wire)
    /\ Len(inbuf) < MaxInbuf
    /\ inbuf' = Append(inbuf, Garbled)
    /\ devNext' = devNext + 1
    /\ UNCHANGED <<commsVars, thrVars, wire>>
    /\ UNCHANGED portVars

\* ... or the reply is lost on the line.
BoardDrop ==
    /\ devNext <= Len(wire)
    /\ devNext' = devNext + 1
    /\ UNCHANGED <<commsVars, thrVars, wire, inbuf>>
    /\ UNCHANGED portVars

\* -------------------------------------------------------------------- clock
Waiting(t) == pc[t] \in {"w_check", "w_pop"}

Min(a, b) == IF a < b THEN a ELSE b

Tick ==
    /\ sinceComm' = Min(sinceComm + 1, HbInterval)
    /\ waitElapsed' = [t \in Senders |->
                         IF Waiting(t) THEN Min(waitElapsed[t] + 1, RespTimeout)
                         ELSE waitElapsed[t]]
    /\ <<sinceComm', waitElapsed'>> # <<sinceComm, waitElapsed>>
    /\ UNCHANGED <<ser, comms_busy, sequence, responses, pc, cmd_sequence, tmp,
                   wait_for_answer, result, resp_s, devVars>>
    /\ UNCHANGED portVars

\* ==================================================================== ports
\* The port operations run on the caller's thread, one after another; each
\* action below is one whole call. A synchronous send_cmd inside it is taken
\* as one exchange: the command goes out under the current sequence number,
\* the counter advances, and the caller gets what wait_and_retrieve_response
\* finds under that number: the board's reply, or None when none came.

\* An is_resp_ok that knows no acknowledgement.
NoAcknowledge(response) ==
    IF response.error = RES_CMD_SUCCESS THEN "Succeeded"
    ELSE IF response.error = RES_CMD_ABORT THEN "Aborted"
    ELSE "Errored"

\* is_resp_ok(response): the CmdResponseType of a Response (or of None)
is_resp_ok(response) ==
    IF response = None THEN "Errored"
    ELSE IF response.error = RES_CMD_ACK THEN "Acknowledged"
    ELSE IF response.error = RES_CMD_SUCCESS THEN "Succeeded"
    ELSE IF response.error = RES_CMD_ABORT THEN "Aborted"
    ELSE "Errored"

\* bool(member) for a member of CmdResponseType: the class is a plain Enum
\* and defines no __bool__, so every member, Errored included, is true.
EnumTruth(member) == member \in {"Errored", "Acknowledged", "Succeeded", "Aborted"}

\* send_cmd's counter update: self.sequence += 1, then the wrap
NextSequence(s) == Wrap(s + 1)

\* The reply the board gives under sequence s: a Response, or None for none
\* (no line in time, or a line _unpack_response cannot unpack, which the
\* reader drops).
Reply(s, payload_, e) == IF e = "None" THEN None ELSE Response(s, payload_, e)

\* retrieve_response(seq) on a registry: the entry, or None
retrieve_response(reg, s) == IF s \in DOMAIN reg THEN reg[s] ELSE None

\* the registry after retrieve_response(seq)
AfterRetrieve(reg, s) == IF s \in DOMAIN reg THEN Pop(reg, s) ELSE reg

\* One synchronous send_cmd(..., wait_for_answer=True) at counter value s with
\* the board answering r: what the caller gets, and the counter and registry
\* afterwards. An entry already stored under s is what the first poll finds;
\* the board's own reply is then inserted after the caller has returned.
Exchange(s, reg, r) ==
    [resp |-> IF s \in DOMAIN reg THEN reg[s] ELSE r,
     sequence |-> NextSequence(s),
     responses |-> IF s \in DOMAIN reg
                   THEN (IF r = None THEN Pop(reg, s) ELSE Insert(Pop(reg, s), r))
                   ELSE reg,
     used |-> s,
     timedOut |-> (s \notin DOMAIN reg) /\ r = None]

\* Every exchange counted as a success.
AnyReply(x) == TRUE

Succeeded(x) == is_resp_ok(x.resp) = "Succeeded"

\* A timed-out exchange lasts resp_timeout; the motor's timer saturates just
\* past _is_busy_query_delay.
QueryCap == QueryDelay + 1
Elapse(t, timedOut) == IF timedOut THEN Min(t + RespTimeout, QueryCap) ELSE t

\* MotorPort.__init__ and PowerOutputPort's class attributes
MotorInit ==
    [resolution |-> 0, rpm |-> 0, current |-> 0, enabled |-> FALSE,
     configure_requested |-> FALSE, configured |-> FALSE, busy |-> FALSE,
     current_sequence |-> 0]
PowerInit == [defaut_pwm |-> 1024, current_pwm |-> 0]

\* The sections of the commands an operation wrote go into `sent`.
\* and the arguments it was called with into `arg`.
NoOp == [op |-> "none", ret |-> "None", resp |-> None, why |-> "", fb |-> None,
         sent |-> <<>>, arg |-> <<>>, values |-> <<>>]
Op(name, ret_, resp_) ==
    [op |-> name, ret |-> ret_, resp |-> resp_, why |-> "", fb |-> None, sent |-> <<>>,
     arg |-> <<>>, values |-> <<>>]
PyBool(b) == IF b THEN "True" ELSE "False"

\* What the port specifications leave alone: the threads and the raw line.
idleVars == <<ser, comms_busy, sinceComm, thrVars, devVars, extVars>>

\* Section definitions
SEC_MOTOR_STEP == "Motor_step"
SEC_MOTOR_RPM_SPEED == "Motor_rpm_speed"
SEC_MOTOR_CURRENT_MILLIAMP == "Motor_current_milliamps"
SEC_MOTOR_ENABLE == "Motor_enable"
SEC_MOTOR_STEP_ANGLE == "Motor_step_angle"

\* The sections _configure writes to, in its order: set_rpm, set_current,
\* set_resolution.
ConfigureSections ==
    <<SEC_MOTOR_RPM_SPEED, SEC_MOTOR_CURRENT_MILLIAMP, SEC_MOTOR_STEP_ANGLE>>

\* --------------------------------------------------------------- _configure
\* MotorPort._configure once _configure_requested is set:
\* set_rpm(...) and set_current(...) and set_resolution(...), each a SET
\* exchange that caches its value on Succeeded, the later ones skipped once
\* one has failed. e1, e2, e3 are the board's answers.
Configure(m, s, reg, e1, e2, e3) ==
    LET x1 == Exchange(s, reg, Reply(s, "", e1))
        ok1 == Succeeded(x1)
        x2 == IF ok1 THEN Exchange(x1.sequence, x1.responses, Reply(x1.sequence, "", e2))
              ELSE x1
        ok2 == ok1 /\ Succeeded(x2)
        x3 == IF ok2 THEN Exchange(x2.sequence, x2.responses, Reply(x2.sequence, "", e3))
              ELSE x2
        ok3 == ok2 /\ Succeeded(x3)
    IN  [motor |-> IF ok3 THEN [m EXCEPT !.configured = TRUE, !.configure_requested = FALSE]
                   ELSE m,
         sequence |-> x3.sequence,
         responses |-> x3.responses,
         sent |-> 1 + (IF ok1 THEN 1 ELSE 0) + (IF ok2 THEN 1 ELSE 0),
         sections |-> SubSeq(ConfigureSections, 1,
                             1 + (IF ok1 THEN 1 ELSE 0) + (IF ok2 THEN 1 ELSE 0)),
         used |-> x3.used,
         timedOut |-> x3.timedOut,
         ok |-> ok3]

\* The answers that matter to _configure: those given to commands it sends.
ConfigureAnswers ==
    {e \in PlainErrors \X PlainErrors \X PlainErrors :
        /\ (e[1] # RES_CMD_SUCCESS => e[2] = RES_CMD_SUCCESS)
        /\ (e[1] # RES_CMD_SUCCESS \/ e[2] # RES_CMD_SUCCESS => e[3] = RES_CMD_SUCCESS)}

\* ---------------------------------------------------------------- configure
\* A validation that looks at the resolution only.
ResolutionOnly(resolution, current, rpm) == ~(resolution < 0)

\* configure's argument checks: none of the three raises ValueError
ValidArgs(resolution, current, rpm) ==
    ~(resolution < 0) /\ ~(rpm < 0) /\ ~(current < 0)

\* configure's assignments ahead of _configure()
Requested(m, resolution, current, rpm) ==
    [m EXCEPT !.configured = FALSE,
              !.configure_requested = TRUE,
              !.resolution = resolution,
              !.rpm = rpm,
              !.current = current]

\* MotorPort.configure(resolution, current, rpm), the port being open
MotorConfigure(resolution, current, rpm) ==
    /\ calls < MaxCalls
    /\ IF ~ValidArgs(resolution, current, rpm)
       THEN /\ last' = [Op("configure", "Raised", None)
                          EXCEPT !.why = "ValueError",
                                 !.arg = <<resolution, current, rpm>>]
            /\ UNCHANGED <<motor, sequence, responses, calls, lastSeq, sinceQuery>>
       ELSE \E e \in ConfigureAnswers :
              LET m0 == Requested(motor, resolution, current, rpm)
                  c == Configure(m0, sequence, responses, e[1], e[2], e[3])
              IN  /\ motor' = c.motor
                  /\ sequence' = c.sequence
                  /\ responses' = c.responses
                  /\ calls' = calls + c.sent
                  /\ lastSeq' = c.used
                  /\ sinceQuery' = Elapse(sinceQuery, c.timedOut)
                  /\ is_connected
                  /\ last' = [Op("configure", "None", None)
                                EXCEPT !.sent = c.sections,
                                       !.arg = <<resolution, current, rpm>>]
    /\ UNCHANGED <<power, board, pending, initial, motionDone, idleVars>>

\* What the first _send_cmd of a call raises on a port in state s, `fault`
\* saying that flush() or write() raises on an open port: IsotopeCommsError
\* when self.ser is None, the SerialException of a failed or refused write,
\* "" for a write that goes through.
WriteError(s, fault) ==
    IF s = "none" THEN "IsotopeCommsError"
    ELSE IF s = "closed" \/ fault THEN "SerialException"
    ELSE ""

\* MotorPort.configure with valid arguments when set_rpm's command cannot be
\* written: `except IsotopeCommsError: pass` swallows the one exception and
\* configure returns None; any other exception leaves configure. Nothing went
\* out and the sequence counter was not advanced.
MotorConfigureUnsent(resolution, current, rpm, fault) ==
    /\ calls < MaxCalls
    /\ ValidArgs(resolution, current, rpm)
    /\ WriteError(ser, fault) # ""
    /\ motor' = Requested(motor, resolution, current, rpm)
    /\ last' = [Op("configure",
                    IF WriteError(ser, fault) = "IsotopeCommsError" THEN "None"
                    ELSE "Raised", None)
                  EXCEPT !.why = WriteError(ser, fault),
                         !.arg = <<resolution, current, rpm>>]
    /\ UNCHANGED <<sequence, responses, calls, lastSeq, sinceQuery, power, board,
                   pending, initial, motionDone, idleVars>>

\* The caller's disconnect() between two port calls closes the port.
PortClose ==
    /\ ser' = AfterClose(ser)
    /\ ser' # ser
    /\ UNCHANGED <<comms_busy, sequence, responses, sinceComm, thrVars, devVars,
                   portVars>>

\* ------------------------------------------------------- enable and disable
\* An enable() that never configures.
NeverConfigure(m) == FALSE

\* enable(): `if not self._configured`
NeedsConfigure(m) == ~m.configured

\* MotorPort.enable(): _configure() first when not configured (it raises when
\* configure was never called), then SET Motor_enable=1; on Succeeded the
\* motor is enabled and not busy. The board stops any motion on Succeeded.
MotorEnable ==
    /\ calls < MaxCalls
    /\ IF ~motor.configured /\ ~motor.configure_requested
       THEN /\ last' = Op("enable", "Raised", None)
            /\ UNCHANGED <<motor, sequence, responses, calls, lastSeq, sinceQuery, board>>
       ELSE \E e \in ConfigureAnswers, en \in PlainErrors :
              LET c == IF ~NeedsConfigure(motor)
                       THEN [motor |-> motor, sequence |-> sequence,
                             responses |-> responses, sent |-> 0,
                             sections |-> <<>>, used |-> lastSeq,
                             timedOut |-> FALSE, ok |-> TRUE]
                       ELSE Configure(motor, sequence, responses, e[1], e[2], e[3])
                  x == Exchange(c.sequence, c.responses, Reply(c.sequence, "", en))
              IN  /\ (motor.configured => e = <<RES_CMD_SUCCESS, RES_CMD_SUCCESS, RES_CMD_SUCCESS>>)
                  /\ motor' = IF Succeeded(x)
                              THEN [c.motor EXCEPT !.enabled = TRUE, !.busy = FALSE]
                              ELSE c.motor
                  /\ sequence' = x.sequence
                  /\ responses' = x.responses
                  /\ calls' = calls + c.sent + 1
                  /\ lastSeq' = x.used
                  /\ sinceQuery' = Elapse(Elapse(sinceQuery, c.timedOut), x.timedOut)
                  /\ board' = IF en = RES_CMD_SUCCESS THEN [board EXCEPT !.moving = FALSE]
                              ELSE board
                  /\ last' = [Op("enable", PyBool(Succeeded(x)), x.resp)
                                EXCEPT !.sent = Append(c.sections, SEC_MOTOR_ENABLE)]
    /\ UNCHANGED <<power, pending, initial, motionDone, idleVars>>

\* A disable() that leaves the motion tracking alone.
DisabledStillBusy(m) == [m EXCEPT !.enabled = FALSE]

\* disable() on Succeeded: self._enabled = False; self._busy = False
Disabled(m) == [m EXCEPT !.enabled = FALSE, !.busy = FALSE]

\* MotorPort.disable(): SET Motor_enable=0; on Succeeded the motor is
\* disabled and not busy.
MotorDisable ==
    /\ calls < MaxCalls
    /\ \E en \in PlainErrors :
         LET x == Exchange(sequence, responses, Reply(sequence, "", en))
         IN  /\ motor' = IF Succeeded(x) THEN Disabled(motor) ELSE motor
             /\ sequence' = x.sequence
             /\ responses' = x.responses
             /\ calls' = calls + 1
             /\ lastSeq' = x.used
             /\ sinceQuery' = Elapse(sinceQuery, x.timedOut)
             /\ board' = IF en = RES_CMD_SUCCESS THEN [board EXCEPT !.moving = FALSE]
                         ELSE board
             /\ last' = [Op("disable", PyBool(Succeeded(x)), x.resp)
                           EXCEPT !.sent = <<SEC_MOTOR_ENABLE>>]
    /\ UNCHANGED <<power, pending, initial, motionDone, idleVars>>

\* ------------------------------------ set_rpm, set_current, set_resolution
\* A setter that forgets the value.
KeepField(m, field, value) == m

\* self._rpm = value (self._current, self._resolution)
SetField(m, field, value) == [m EXCEPT ![field] = value]

\* The values the setters are called with
SetterValues == {5, 9}

\* set_rpm(value), set_current(value), set_resolution(value): one SET
\* exchange on the setter's section; on Succeeded the value is cached and
\* True returned, otherwise False.
MotorSet(name, field, section, value) ==
    /\ calls < MaxCalls
    /\ \E e \in StepErrors :
         LET x == Exchange(sequence, responses, Reply(sequence, "", e))
         IN  /\ motor' = IF Succeeded(x) THEN SetField(motor, field, value) ELSE motor
             /\ sequence' = x.sequence
             /\ responses' = x.responses
             /\ calls' = calls + 1
             /\ lastSeq' = x.used
             /\ sinceQuery' = Elapse(sinceQuery, x.timedOut)
             /\ last' = [Op(name, PyBool(Succeeded(x)), x.resp)
                           EXCEPT !.sent = <<section>>, !.arg = <<value>>]
    /\ UNCHANGED <<power, board, pending, initial, motionDone, idleVars>>

MotorSetRpm(value) == MotorSet("set_rpm", "rpm", SEC_MOTOR_RPM_SPEED, value)
MotorSetCurrent(value) ==
    MotorSet("set_current", "current", SEC_MOTOR_CURRENT_MILLIAMP, value)
MotorSetResolution(value) ==
    MotorSet("set_resolution", "resolution", SEC_MOTOR_STEP_ANGLE, value)

\* ---------------------------------------------------------- rotate_by_steps
\* A port that always reports itself enabled.
AlwaysEnabled(m) == TRUE

\* MotorPort.is_enabled: return self._enabled
is_enabled(m) == m.enabled

\* MotorPort.rotate_by_steps(steps): raises when not enabled; otherwise SET
\* Motor_step, _last_is_busy_query_time = now; Acknowledged marks the motor
\* busy under the reply's sequence, Succeeded returns True as well.
\* The board starts moving when it acknowledges.
RotateBySteps(name) ==
    /\ calls < MaxCalls
    /\ IF ~is_enabled(motor)
       THEN /\ last' = Op(name, "Raised", None)
            /\ UNCHANGED <<motor, sequence, responses, calls, lastSeq, sinceQuery,
                           board, motionDone>>
       ELSE \E e \in StepErrors :
              LET x == Exchange(sequence, responses, Reply(sequence, "", e))
                  k == is_resp_ok(x.resp)
              IN  /\ motor' = IF k = "Acknowledged"
                              THEN [motor EXCEPT !.busy = TRUE,
                                                 !.current_sequence = x.resp.seq]
                              ELSE motor
                  /\ sequence' = x.sequence
                  /\ responses' = x.responses
                  /\ calls' = calls + 1
                  /\ lastSeq' = x.used
                  /\ sinceQuery' = 0
                  /\ board' = IF e = RES_CMD_ACK
                              THEN [moving |-> TRUE, seq |-> x.used]
                              ELSE IF e = RES_CMD_SUCCESS
                              THEN [board EXCEPT !.moving = FALSE]
                              ELSE board
                  /\ motionDone' = IF k = "Acknowledged" THEN FALSE ELSE motionDone
                  /\ last' = [Op(name, PyBool(k \in {"Acknowledged", "Succeeded"}),
                                   x.resp) EXCEPT !.sent = <<SEC_MOTOR_STEP>>]
    /\ UNCHANGED <<power, pending, initial, idleVars>>

MotorRotateBySteps == RotateBySteps("rotate_by_steps")

\* rotate_by_degrees: steps = degrees / self._resolution, which raises
\* ZeroDivisionError on a port whose resolution is 0, then rotate_by_steps.
MotorRotateByDegrees ==
    IF motor.resolution = 0
    THEN /\ calls < MaxCalls
         /\ last' = [Op("rotate_by_degrees", "Raised", None)
                       EXCEPT !.why = "ZeroDivisionError"]
         /\ UNCHANGED <<motor, sequence, responses, calls, lastSeq, sinceQuery,
                        board, motionDone, power, pending, initial, idleVars>>
    ELSE RotateBySteps("rotate_by_degrees")

\* ------------------------------------------------------- is_busy_from_board
\* The board's answers to GET Motor_busy: its state as a JSON string or a
\* JSON number, an error, or nothing.
BusyAnswers(s) ==
    {None, Response(s, "", RES_ERR_GEN)}
    \cup {Response(s, p, RES_CMD_SUCCESS) :
            p \in IF board.moving THEN {"1", "#1"} ELSE {"0", "#0"}}

\* A board that is taken to be busy whatever it answers.
AlwaysBusy(resp) == "True"

\* MotorPort.is_busy_from_board's return value for the reply it got:
\* `resp.payload == 1` on Succeeded, and None (no return statement is
\* reached) otherwise.
is_busy_from_board(resp) ==
    IF is_resp_ok(resp) = "Succeeded" THEN PyBool(resp.payload = "#1") ELSE "None"

\* Python's `not v` for v among True, False and None
PyNot(v) == PyBool(v # "True")

\* ------------------------------------------------------ is_motion_completed
\* The flag _busy after is_motion_completed has seen Succeeded or Aborted on
\* the in-flight sequence: the method returns True and assigns nothing.
BusyAfterCompletion(m) == m.busy

\* What is_motion_completed leaves alone outside the ports
pollIdle == <<ser, comms_busy, sinceComm, thrVars, devVars, handshakeVars, portObjs>>

\* MotorPort.is_motion_completed()
PollMotion ==
    /\ calls < MaxCalls
    /\ IF ~motor.busy
       THEN /\ last' = [Op("is_motion_completed", "True", None) EXCEPT !.why = "idle"]
            /\ motionDone' = TRUE
            /\ UNCHANGED <<motor, sequence, responses, calls, lastSeq, sinceQuery>>
       ELSE LET resp == retrieve_response(responses, motor.current_sequence)
                reg == AfterRetrieve(responses, motor.current_sequence)
                k == is_resp_ok(resp)
            IN  IF k = "Succeeded" \/ k = "Aborted"
                THEN /\ responses' = reg
                     /\ motor' = [motor EXCEPT !.busy = BusyAfterCompletion(motor)]
                     /\ last' = [Op("is_motion_completed", "True", resp)
                                   EXCEPT !.why = "taken"]
                     /\ motionDone' = TRUE
                     /\ UNCHANGED <<sequence, calls, lastSeq, sinceQuery>>
                ELSE IF sinceQuery > QueryDelay
                THEN \E r \in BusyAnswers(sequence) :
                       LET x == Exchange(sequence, reg, r)
                           v == PyNot(is_busy_from_board(x.resp))
                       IN  /\ sequence' = x.sequence
                           /\ responses' = x.responses
                           /\ calls' = calls + 1
                           /\ lastSeq' = x.used
                           /\ sinceQuery' = 0
                           /\ last' = [Op("is_motion_completed", v, resp)
                                         EXCEPT !.why = "fallback", !.fb = x.resp]
                           /\ motionDone' = (motionDone \/ v = "True")
                           /\ UNCHANGED motor
                ELSE /\ responses' = reg
                     /\ last' = [Op("is_motion_completed", "False", resp)
                                   EXCEPT !.why = "wait"]
                     /\ UNCHANGED <<motor, sequence, calls, lastSeq, sinceQuery,
                                    motionDone>>
    /\ UNCHANGED <<power, board, pending, initial, pollIdle>>

\* is_motion_completed() called by itself
MotorIsMotionCompleted == PollMotion /\ UNCHANGED waiting

\* ---------------------------------------------- wait_until_motion_completed
\* A loop that never looks at the clock.
NoTimeout(timeout, elapsed) == TRUE

\* The second operand of the loop test of wait_until_motion_completed:
\* timeout <= 0 or time.perf_counter() - t_start < timeout
WithinTimeout(timeout, elapsed) == ~(timeout > 0) \/ elapsed < timeout

\* Time spent in the call, counted up to the timeout only, and not at all
\* when there is none.
Spend(w, t) == IF w.timeout > 0 THEN Min(w.elapsed + t, w.timeout) ELSE 0

\* wait_until_motion_completed(timeout) is entered: t_start = perf_counter().
\* (A positive timeout is let in only with room under MaxCalls for the
\* queries its polls may send.)
WaitStart(timeout) ==
    /\ waiting.pc = "idle"
    /\ timeout > 0 => calls + timeout + 1 <= MaxCalls
    /\ waiting' = [pc |-> "test", timeout |-> timeout, elapsed |-> 0]
    /\ UNCHANGED <<commsVars, thrVars, devVars, motor, sinceQuery, power, board,
                   pending, last, calls, initial, lastSeq, motionDone, handshakeVars,
                   portObjs>>

\* The loop test: is_motion_completed() is called; True ends the call, and
\* so does a timeout that has run out; otherwise the loop body is entered.
\* A fallback query left without a reply took resp_timeout.
WaitPoll ==
    /\ waiting.pc = "test"
    /\ PollMotion
    /\ LET spent == IF last'.why = "fallback" /\ last'.fb = None THEN RespTimeout ELSE 0
           w == [waiting EXCEPT !.elapsed = Spend(waiting, spent)]
       IN  waiting' = IF last'.ret # "True" /\ WithinTimeout(w.timeout, w.elapsed)
                      THEN [w EXCEPT !.pc = "sleep"]
                      ELSE [w EXCEPT !.pc = "idle"]

\* The loop body: time.sleep(delay)
WaitSleep ==
    /\ waiting.pc = "sleep"
    /\ waiting' = [waiting EXCEPT !.pc = "test", !.elapsed = Spend(waiting, 1)]
    /\ sinceQuery' = Min(sinceQuery + 1, QueryCap)
    /\ UNCHANGED <<commsVars, thrVars, devVars, motor, power, board, pending, last,
                   calls, initial, lastSeq, motionDone, handshakeVars, portObjs>>

\* ------------------------------------------------------------- power output
\* PowerOutputPort.disable(): SET Power_output=0; `if is_resp_ok(msg)` then
\* _current_pwm = 0 and True.
PowerDisableResult(pw, s, reg, e, name) ==
    LET x == Exchange(s, reg, Reply(s, "", e))
        ok == EnumTruth(is_resp_ok(x.resp))
    IN  [power |-> IF ok THEN [pw EXCEPT !.current_pwm = 0] ELSE pw,
         x |-> x,
         last |-> Op(name, PyBool(ok), x.resp)]

\* PowerOutputPort.enable(pwm): a pwm outside 0..1024 raises; 0 is disable();
\* None (written -1 here) means the default; then SET Power_output=pwm and
\* `if is_resp_ok(msg)`: _current_pwm = pwm and True, else False.
PowerEnableResult(pw, s, reg, pwm, e) ==
    IF pwm = 0 THEN PowerDisableResult(pw, s, reg, e, "power_enable")
    ELSE LET value == IF pwm = PwmNone THEN pw.defaut_pwm ELSE pwm
             x == Exchange(s, reg, Reply(s, "", e))
             ok == EnumTruth(is_resp_ok(x.resp))
         IN  [power |-> IF ok THEN [pw EXCEPT !.current_pwm = value] ELSE pw,
              x |-> x,
              last |-> Op("power_enable", PyBool(ok), x.resp)]

PowerEnable(pwm) ==
    /\ calls < MaxCalls
    /\ IF pwm # PwmNone /\ (pwm < 0 \/ pwm > 1024)
       THEN /\ last' = [Op("power_enable", "Raised", None) EXCEPT !.arg = <<pwm>>]
            /\ UNCHANGED <<power, sequence, responses, calls, lastSeq>>
       ELSE \E e \in PowerErrors :
              LET r == PowerEnableResult(power, sequence, responses, pwm, e)
              IN  /\ power' = r.power
                  /\ sequence' = r.x.sequence
                  /\ responses' = r.x.responses
                  /\ calls' = calls + 1
                  /\ lastSeq' = r.x.used
                  /\ last' = [r.last EXCEPT
                                !.arg = <<pwm>>,
                                !.values = <<IF pwm = PwmNone THEN power.defaut_pwm
                                             ELSE pwm>>]
    /\ UNCHANGED <<motor, sinceQuery, board, pending, initial, motionDone, idleVars>>

PowerDisable ==
    /\ calls < MaxCalls
    /\ \E e \in PowerErrors :
         LET r == PowerDisableResult(power, sequence, responses, e, "power_disable")
         IN  /\ power' = r.power
             /\ sequence' = r.x.sequence
             /\ responses' = r.x.responses
             /\ calls' = calls + 1
             /\ lastSeq' = r.x.used
             /\ last' = r.last
    /\ UNCHANGED <<motor, sinceQuery, board, pending, initial, motionDone, idleVars>>

\* The default_pwm setter: a value outside 0..1024 raises.
PowerSetDefault(value) ==
    /\ IF value < 0 \/ value > 1024
       THEN /\ last' = Op("default_pwm", "Raised", None)
            /\ UNCHANGED power
       ELSE /\ power' = [power EXCEPT !.defaut_pwm = value]
            /\ last' = Op("default_pwm", "None", None)
    /\ UNCHANGED <<motor, sinceQuery, board, pending, initial, motionDone, calls,
                   lastSeq, sequence, responses, idleVars>>

\* --------------------------------------------------------------- PWM output
\* PWMOutputPort.set_pwm(value): a value outside 0..1024 raises ValueError
\* before anything is sent; otherwise SET PWM_output=[value, type] and
\* `is_resp_ok(resp) == Succeeded`. The port keeps no state of its own.
PwmSetPwm(value) ==
    /\ calls < MaxCalls
    /\ IF value < 0 \/ value > 1024
       THEN /\ last' = [Op("set_pwm", "Raised", None) EXCEPT !.arg = <<value>>]
            /\ UNCHANGED <<sequence, responses, calls, lastSeq>>
       ELSE \E e \in PowerErrors :
              LET x == Exchange(sequence, responses, Reply(sequence, "", e))
              IN  /\ sequence' = x.sequence
                  /\ responses' = x.responses
                  /\ calls' = calls + 1
                  /\ lastSeq' = x.used
                  /\ last' = [Op("set_pwm", PyBool(Succeeded(x)), x.resp)
                                EXCEPT !.arg = <<value>>, !.values = <<value>>]
    /\ UNCHANGED <<motor, sinceQuery, power, board, pending, initial, motionDone,
                   idleVars>>

\* ----------------------------------------------------------------- RGB LED
\* A clamp that lets every value through.
NoClamp(i, min_i, max_i) == i

\* clamp_i(i, min_i, max_i)
clamp_i(i, min_i, max_i) ==
    IF i < min_i THEN min_i ELSE IF i > max_i THEN max_i ELSE i

\* Isotope.set_RGB_colour(red_i, green_i, blue_i): three SET exchanges, one
\* per channel, each with its value clamped to 0..255, all three sent
\* whatever the earlier answers; the result is the `and` of the three
\* is_resp_ok results, each an enum member and so true.
SetRGBColour(red_i, green_i, blue_i) ==
    /\ calls + 3 <= MaxCalls
    /\ \E e1 \in PowerErrors, e23 \in {RES_CMD_SUCCESS, RES_ERR_GEN} :
         LET x1 == Exchange(sequence, responses, Reply(sequence, "", e1))
             x2 == Exchange(x1.sequence, x1.responses, Reply(x1.sequence, "", e23))
             x3 == Exchange(x2.sequence, x2.responses, Reply(x2.sequence, "", e23))
             ok == /\ EnumTruth(is_resp_ok(x1.resp))
                   /\ EnumTruth(is_resp_ok(x2.resp))
                   /\ EnumTruth(is_resp_ok(x3.resp))
         IN  /\ sequence' = x3.sequence
             /\ responses' = x3.responses
             /\ calls' = calls + 3
             /\ lastSeq' = x3.used
             /\ last' = [Op("set_RGB_colour", PyBool(ok), x3.resp)
                           EXCEPT !.arg = <<red_i, green_i, blue_i>>,
                                  !.values = <<clamp_i(red_i, 0, 255),
                                               clamp_i(green_i, 0, 255),
                                               clamp_i(blue_i, 0, 255)>>]
    /\ UNCHANGED <<motor, sinceQuery, power, board, pending, initial, motionDone,
                   idleVars>>

\* ------------------------------------------------- the board and the reader
\* The motion ends: the board sends Succeeded or Aborted under the sequence
\* of the rotate command.
BoardCompletes(e) ==
    /\ board.moving
    /\ board' = [board EXCEPT !.moving = FALSE]
    /\ pending' = Response(board.seq, "", e)
    /\ UNCHANGED <<motor, sinceQuery, power, last, calls, initial, lastSeq,
                   motionDone, sequence, responses, idleVars>>

\* The reader thread reads the notification and inserts it.
ReaderDelivers ==
    /\ pending # None
    /\ responses' = Insert(responses, pending)
    /\ pending' = None
    /\ UNCHANGED <<motor, sinceQuery, power, board, last, calls, initial, lastSeq,
                   motionDone, sequence, idleVars>>

\* The notification is lost on the line.
NotificationLost ==
    /\ pending # None
    /\ pending' = None
    /\ UNCHANGED <<motor, sinceQuery, power, board, last, calls, initial, lastSeq,
                   motionDone, sequence, responses, idleVars>>

\* Time passes on the caller's side.
PortTick ==
    /\ sinceQuery < QueryCap
    /\ sinceQuery' = sinceQuery + 1
    /\ UNCHANGED <<motor, power, board, pending, last, calls, initial, lastSeq,
                   motionDone, sequence, responses, idleVars>>

\* The port objects right after construction.
PortsConstructed ==
    /\ motor = MotorInit
    /\ sinceQuery = QueryCap
    /\ power = PowerInit
    /\ board = [moving |-> FALSE, seq |-> 0]
    /\ pending = None
    /\ last = NoOp
    /\ calls = 0
    /\ lastSeq = 0
    /\ motionDone = FALSE

\* The sequence numbers and replies the registry operations are tried with.
RegSeqs == {0, 1}
RegReplies ==
    {Response(s, p, e) : s \in RegSeqs, p \in {"0", "1"}, e \in {RES_CMD_ACK, RES_CMD_SUCCESS}}

\* No reply has been inserted under any sequence yet.
NoHistory == [s \in RegSeqs |-> [entries |-> <<>>, consumed |-> FALSE]]

\* The versions __minimum_firmware__ is tried with
MinFirmwares == {<<0, 0, 0>>, <<1, 0, 0>>, <<1, 1, 0>>}

\* A Who_I_am payload as its split(",") fields, each as its split("=") items:
\* the payload of a legacy board
LegacyPayload == << <<"ISOTOPE_BOARD">> >>

\* ---------------------------------------------------------- port containers
\* The second argument of super().__init__(comms, N) in Motor.__init__
\* (motor.py 374), PWMOutput.__init__ (pwm_output.py 171),
\* PowerOutput.__init__ (power_output.py 136), ADCInput.__init__
\* (adc_input.py 80) and TempInput.__init__ (temp_input.py 130).
max_port_count == [motor |-> 4, pwm |-> 4, power |-> 3, adc |-> 3, temp |-> 3]

\* The attribute each constructor reads the count back from, in
\* `range(self.<attribute>)`: power_output.py 137 reads self._max_ports.
CountAttribute ==
    [motor |-> "max_port_count", pwm |-> "max_port_count", power |-> "max_ports",
     adc |-> "max_port_count", temp |-> "max_port_count"]

\* IsotopePortContainer.__init__: the attributes it sets.
ContainerBase(n) == [max_port_count |-> n, ports |-> << >>]

\* A container's constructor: the base constructor, then one port per id in
\* range(count). Reading an attribute the base never set raises
\* AttributeError and there is no container.
Construct(kind) ==
    LET base == ContainerBase(max_port_count[kind])
        attr == CountAttribute[kind]
    IN  IF attr \in DOMAIN base
        THEN [raised |-> "None", max_port_count |-> base.max_port_count,
              ports |-> [i \in 1..base[attr] |-> i - 1]]
        ELSE [raised |-> "AttributeError", max_port_count |-> base.max_port_count,
              ports |-> base.ports]

\* IsotopePortContainer.__getitem__(key) on what the constructor gave: the
\* id of the port returned, or the exception. (self._ports[key] is the
\* (key+1)-th element of ports.)
getitem(c, key) ==
    IF c.raised # "None" THEN [raised |-> c.raised, id |-> -1]
    ELSE IF key < 0 \/ key > c.max_port_count - 1
    THEN [raised |-> "IndexError", id |-> -1]
    ELSE [raised |-> "None", id |-> c.ports[key + 1]]

\* The motor ports driven side by side: the first two of Motor._ports
MotorIds == {0, 1}

\* A MotorPort after __init__, as far as the calls on several ports read it
PortInit == [enabled |-> FALSE, busy |-> FALSE, current_sequence |-> 0]

\* A MotorPort once enable() has returned True
PortEnabled == [PortInit EXCEPT !.enabled = TRUE]

\* The board has no motion of this motor under way
NotMoving == -1

\* No container indexed yet
NoItem == [kind |-> "none", key |-> 0, raised |-> "None", id |-> -1]

\* No wait_until_motion_completed under way
NotWaiting == [pc |-> "idle", timeout |-> 0, elapsed |-> 0]

\* A connected object outside the registry and life-cycle specifications.
ExtInit ==
    /\ history = NoHistory
    /\ phase = "connected"
    /\ min_firmware = <<0, 0, 0>>
    /\ board_firmware = <<0, 0, 0>>
    /\ who_i_am = LegacyPayload
    /\ waiting = NotWaiting
    /\ containers = [kind \in DOMAIN max_port_count |-> Construct(kind)]
    /\ item = NoItem
    /\ writer = <<>>
    /\ ports = [i \in MotorIds |-> PortEnabled]
    /\ moving = [i \in MotorIds |-> NotMoving]

\* ------------------------------------------------------------ specification
\* The connection right after connect(): port open, reader and heartbeat
\* threads running, nothing sent yet on this counter.
InitComms ==
    /\ ser = "open"
    /\ comms_busy = FALSE
    /\ sequence = 0
    /\ responses = EmptyRegistry
    /\ sinceComm = 0
    /\ pc = [t \in Threads |-> CASE t = "main" -> "idle"
                                 [] t = "hb" -> "hb_loop"
                                 [] OTHER -> "r_loop"]
    /\ cmd_sequence = [t \in Senders |-> 0]
    /\ tmp = [t \in Senders |-> 0]
    /\ wait_for_answer = [t \in Senders |-> TRUE]
    /\ waitElapsed = [t \in Senders |-> 0]
    /\ result = [t \in Senders |-> None]
    /\ resp_s = None
    /\ wire = <<>>
    /\ inbuf = <<>>
    /\ devNext = 1
    /\ PortsConstructed
    /\ ExtInit
    /\ initial = 0

SenderStep(t) ==
    \/ SendSpin(t)
    \/ SendSetBusy(t)
    \/ SendWrite(t)
    \/ SendLoadSequence(t)
    \/ SendStoreSequence(t)
    \/ SendWrap(t)
    \/ WaitCheck(t)
    \/ WaitPop(t)

MainStep ==
    \/ \E w \in BOOLEAN : MainCallSend(w)
    \/ SenderStep("main")
    \/ DisconnectClose
    \/ DisconnectJoin

HeartbeatStep == Heartbeat \/ SenderStep("hb")

ReaderStep ==
    \/ ReaderLoop
    \/ ReaderWaitOpen
    \/ ReaderAvail
    \/ ReaderReadline
    \/ ReaderInsert

\* The statuses the board answers a plain command with in SpecComms.
BoardErrors == {RES_CMD_SUCCESS}

BoardStep == (\E err \in BoardErrors : BoardReply(err)) \/ BoardDrop

NextComms == MainStep \/ HeartbeatStep \/ ReaderStep \/ BoardStep \/ Tick

SpecComms == InitComms /\ [][NextComms]_vars

\* Every runnable thread is eventually scheduled, the board eventually acts
\* and the clock advances.
FairSpecComms ==
    /\ SpecComms
    /\ WF_vars(MainStep)
    /\ WF_vars(HeartbeatStep)
    /\ WF_vars(ReaderStep)
    /\ WF_vars(Tick)

\* The same threads over a transport whose writes may fail.
WriteFault == \E t \in Senders : SendWriteFails(t)

NextFaults == NextComms \/ WriteFault

SpecFaults == InitComms /\ [][NextFaults]_vars

\* The caller sends one command, the first of the session, waits for its
\* reply and disconnects in the end; the heartbeat thread sends the others;
\* writes and reads may fail; every thread is scheduled again and again.
NextBusy ==
    \/ wire = <<>> /\ MainCallSend(TRUE)
    \/ SenderStep("main")
    \/ DisconnectClose
    \/ DisconnectJoin
    \/ HeartbeatStep
    \/ ReaderStep
    \/ WriteFault
    \/ \E kind \in ReadFaults : ReaderFault(kind)
    \/ BoardReply(RES_CMD_SUCCESS)
    \/ Tick

FairSpecBusy ==
    /\ InitComms
    /\ [][NextBusy]_vars
    /\ WF_vars(SenderStep("main"))
    /\ WF_vars(HeartbeatStep)
    /\ WF_vars(ReaderStep)

\* The threads of SpecComms with a board whose answers tell the commands
\* apart.
NextCorrelation == MainStep \/ HeartbeatStep \/ ReaderStep \/ BoardAnswers \/ Tick

SpecCorrelation == InitComms /\ [][NextCorrelation]_vars

\* The caller and the reader on a line that garbles replies and a port whose
\* reads fail now and then; the heartbeat thread is not stepped.
NextReader ==
    \/ MainStep
    \/ ReaderStep
    \/ \E kind \in ReadFaults : ReaderFault(kind)
    \/ BoardReply(RES_CMD_SUCCESS)
    \/ BoardGarbles
    \/ Tick

SpecReader == InitComms /\ [][NextReader]_vars

\* A connected session seen from the caller's thread: the threads of
\* SpecComms are not stepped, the counter starts where an earlier part of the
\* session left it.
InitSession ==
    /\ ser = "open"
    /\ comms_busy = FALSE
    /\ sequence \in SeqStarts
    /\ initial = sequence
    /\ responses = EmptyRegistry
    /\ sinceComm = 0
    /\ pc = [t \in Threads |-> CASE t = "main" -> "idle"
                                 [] t = "hb" -> "hb_loop"
                                 [] OTHER -> "r_loop"]
    /\ cmd_sequence = [t \in Senders |-> 0]
    /\ tmp = [t \in Senders |-> 0]
    /\ wait_for_answer = [t \in Senders |-> TRUE]
    /\ waitElapsed = [t \in Senders |-> 0]
    /\ result = [t \in Senders |-> None]
    /\ resp_s = None
    /\ wire = <<>>
    /\ inbuf = <<>>
    /\ devNext = 1
    /\ PortsConstructed
    /\ ExtInit

NextMotor ==
    \/ \E resolution \in {-1, 7} : MotorConfigure(resolution, 100, 100)
    \/ MotorEnable
    \/ MotorDisable
    \/ MotorRotateBySteps
    \/ MotorIsMotionCompleted
    \/ \E e \in {RES_CMD_SUCCESS, RES_CMD_ABORT} : BoardCompletes(e)
    \/ ReaderDelivers
    \/ NotificationLost
    \/ PortTick

SpecMotor == InitSession /\ [][NextMotor]_vars

\* The rotation calls of one motor port, enabled or not.
NextRotate ==
    \/ \E resolution \in {0, 7} : MotorConfigure(resolution, 100, 100)
    \/ MotorEnable
    \/ MotorDisable
    \/ MotorRotateBySteps
    \/ MotorRotateByDegrees
    \/ MotorIsMotionCompleted
    \/ PortTick

SpecRotate == InitSession /\ [][NextRotate]_vars

\* A session whose counter stands at 0.
InitOperations == InitSession /\ sequence = 0

\* ------------------------------------------------- several ports side by side
\* What the calls on the ports of the container leave alone
portsKeep == <<ser, comms_busy, thrVars, devVars, motor, sinceQuery, power, board,
               initial, lastSeq, motionDone, handshakeVars, waiting, containers, item,
               writer>>

\* What the completion notice of motor i stands for
MotorTag(i) == IF i = 0 THEN "motor0" ELSE "motor1"

\* isot.motors[i].rotate_by_steps(steps): InvalidOperationException on a port
\* that is not enabled; otherwise one exchange, and on Acknowledged the port
\* is busy under the sequence of the reply. The board starts the motion
\* under the sequence the command carried.
PortRotate(i) ==
    /\ calls < MaxCalls
    /\ ~comms_busy
    /\ IF ~ports[i].enabled
       THEN /\ last' = [Op("rotate_by_steps", "Raised", None) EXCEPT !.arg = <<i>>]
            /\ UNCHANGED <<ports, sequence, responses, moving, calls, sinceComm>>
       ELSE \E e \in {RES_CMD_ACK, "None"} :
              LET x == Exchange(sequence, responses, Reply(sequence, "", e))
                  k == is_resp_ok(x.resp)
              IN  /\ ports' = [ports EXCEPT ![i] =
                                 IF k = "Acknowledged"
                                 THEN [@ EXCEPT !.busy = TRUE,
                                                !.current_sequence = x.resp.seq]
                                 ELSE @]
                  /\ sequence' = x.sequence
                  /\ responses' = x.responses
                  /\ moving' = IF e = RES_CMD_ACK THEN [moving EXCEPT ![i] = sequence]
                               ELSE moving
                  /\ calls' = calls + 1
                  /\ sinceComm' = 0
                  /\ last' = [Op("rotate_by_steps",
                                  PyBool(k \in {"Acknowledged", "Succeeded"}), x.resp)
                                EXCEPT !.arg = <<i>>]
    /\ UNCHANGED <<pending, portsKeep>>

\* isot.motors[i].is_motion_completed(): True on a port that is not busy;
\* otherwise the entry under the port's in-flight sequence is taken, and
\* Succeeded or Aborted means True. Without it the port asks the board once
\* _is_busy_query_delay has passed since its last query (late), and
\* returns False before.
PortPoll(i) ==
    /\ calls < MaxCalls
    /\ IF ~ports[i].busy
       THEN /\ last' = [Op("is_motion_completed", "True", None)
                          EXCEPT !.why = "idle", !.arg = <<i>>]
            /\ UNCHANGED <<sequence, responses, calls, sinceComm>>
       ELSE LET resp == retrieve_response(responses, ports[i].current_sequence)
                reg == AfterRetrieve(responses, ports[i].current_sequence)
                k == is_resp_ok(resp)
            IN  IF k = "Succeeded" \/ k = "Aborted"
                THEN /\ responses' = reg
                     /\ last' = [Op("is_motion_completed", "True", resp)
                                   EXCEPT !.why = "taken", !.arg = <<i>>]
                     /\ UNCHANGED <<sequence, calls, sinceComm>>
                ELSE \E late \in BOOLEAN :
                       IF late
                       THEN /\ ~comms_busy
                            /\ \E r \in {None,
                                          Response(sequence,
                                                   IF moving[i] # NotMoving THEN "#1" ELSE "#0",
                                                   RES_CMD_SUCCESS)} :
                                 LET x == Exchange(sequence, reg, r)
                                 IN  /\ sequence' = x.sequence
                                     /\ responses' = x.responses
                                     /\ last' = [Op("is_motion_completed",
                                                     PyNot(is_busy_from_board(x.resp)), resp)
                                                   EXCEPT !.why = "fallback", !.fb = x.resp,
                                                          !.arg = <<i>>]
                            /\ calls' = calls + 1
                            /\ sinceComm' = 0
                       ELSE /\ responses' = reg
                            /\ last' = [Op("is_motion_completed", "False", resp)
                                          EXCEPT !.why = "wait", !.arg = <<i>>]
                            /\ UNCHANGED <<sequence, calls, sinceComm>>
    /\ UNCHANGED <<ports, moving, pending, portsKeep>>

\* The motion of motor i ends: the board sends Succeeded under the sequence
\* of the rotate command that started it, once the line is free.
BoardFinishes(i) ==
    /\ moving[i] # NotMoving
    /\ pending = None
    /\ pending' = Response(moving[i], MotorTag(i), RES_CMD_SUCCESS)
    /\ moving' = [moving EXCEPT ![i] = NotMoving]
    /\ UNCHANGED <<commsVars, last, calls, ports, portsKeep>>

\* The caller drives two motor ports at once, as the example's parallel
\* operation does, while the heartbeat thread and the reader thread run.
NextPorts ==
    \/ calls < MaxMoves /\ \E i \in MotorIds : PortRotate(i) \/ PortPoll(i)
    \/ \E i \in MotorIds : BoardFinishes(i)
    \/ ReaderDelivers
    \/ wire = <<>> /\ Heartbeat
    \/ SenderStep("hb")
    \/ Tick

SpecPorts == InitOperations /\ [][NextPorts]_vars

\* Every public operation of one motor port, in any order, while the board
\* completes motions and the reader delivers or loses its notifications.
NextOperations ==
    \/ MotorConfigure(7, 100, 100)
    \/ MotorEnable
    \/ MotorDisable
    \/ MotorRotateBySteps
    \/ MotorRotateByDegrees
    \/ MotorSetRpm(100) \/ MotorSetCurrent(100) \/ MotorSetResolution(7)
    \/ MotorIsMotionCompleted
    \/ \E e \in {RES_CMD_SUCCESS, RES_CMD_ABORT} : BoardCompletes(e)
    \/ ReaderDelivers
    \/ NotificationLost
    \/ PortTick

SpecOperations == InitOperations /\ [][NextOperations]_vars

\* The setters of one motor port, next to configure().
NextSetters ==
    \/ MotorConfigure(7, 100, 100)
    \/ \E value \in SetterValues :
          MotorSetRpm(value) \/ MotorSetCurrent(value) \/ MotorSetResolution(value)

SpecSetters == InitSession /\ [][NextSetters]_vars

\* container[key], for one of the five containers
GetItem(kind, key) ==
    /\ item' = [kind |-> kind, key |-> key] @@ getitem(containers[kind], key)
    /\ UNCHANGED <<commsVars, thrVars, devVars, motor, sinceQuery, power, board,
                   pending, last, calls, initial, lastSeq, motionDone, handshakeVars,
                   waiting, containers, writer, ports, moving>>

\* The caller indexes the containers while it sets up a motor and, in the
\* end, closes the port.
NextContainers ==
    \/ \E kind \in DOMAIN max_port_count, key \in -MaxKey..MaxKey : GetItem(kind, key)
    \/ MotorConfigure(7, 100, 100)
    \/ PortClose

SpecContainers == InitSession /\ [][NextContainers]_vars

\* The timeouts wait_until_motion_completed is called with: negative, the
\* default 0, and a positive one.
WaitTimeouts == {-1, 0, MaxWaitTimeout}

\* The caller sets the motor up, starts a rotation and waits for it; the
\* board, the reader and the line do their part meanwhile.
NextWait ==
    \/ waiting.pc = "idle" /\ MotorConfigure(7, 100, 100)
    \/ waiting.pc = "idle" /\ MotorEnable
    \/ waiting.pc = "idle" /\ MotorRotateBySteps
    \/ \E timeout \in WaitTimeouts : WaitStart(timeout)
    \/ WaitPoll
    \/ WaitSleep
    \/ \E e \in {RES_CMD_SUCCESS, RES_CMD_ABORT} : BoardCompletes(e)
    \/ ReaderDelivers
    \/ NotificationLost

SpecWait == InitSession /\ [][NextWait]_vars

\* The caller's thread keeps running: the loop test and the sleep are taken.
FairSpecWait == SpecWait /\ WF_vars(WaitPoll) /\ WF_vars(WaitSleep)

\* The control path of one motor port once it has been set up.
NextSteady ==
    \/ MotorConfigure(7, 100, 100)
    \/ MotorEnable
    \/ MotorDisable
    \/ MotorSetRpm(5) \/ MotorSetCurrent(5) \/ MotorSetResolution(5)
    \/ MotorRotateBySteps
    \/ MotorIsMotionCompleted
    \/ PortTick

SpecSteady == InitSession /\ [][NextSteady]_vars

NextPower ==
    \/ \E pwm \in PwmArgs : PowerEnable(pwm)
    \/ PowerDisable
    \/ \E value \in {512, 2048} : PowerSetDefault(value)

SpecPower == InitSession /\ [][NextPower]_vars

\* Values inside, on the edges of and outside the ranges 0..1024 and 0..255
RangeArgs == {-5, 0, 255, 256, 1024, 1025}

\* The caller drives a power output, a PWM output and the RGB LED with
\* values of every kind.
NextRanges ==
    \/ \E pwm \in RangeArgs : PowerEnable(pwm)
    \/ \E value \in RangeArgs : PwmSetPwm(value)
    \/ \E red_i \in RangeArgs, green_i \in {-5, 255}, blue_i \in {0, 256} :
         SetRGBColour(red_i, green_i, blue_i)

SpecRanges == InitSession /\ [][NextRanges]_vars

\* ------------------------------------------------------- firmware handshake
BOARD_NAME == "Isotope Board"

\* A name and firmware payload
KV(k1, v1, k2, v2) == << <<k1, v1>>, <<k2, v2>> >>

\* The version strings a board is let report: three components below, at and
\* above the minimums, one and two components, and one that is no number.
VersionStrings == {"0.9.9", "1.0.0", "1.1.0", "2.0.0", "2", "1.1", "1.x.0"}

\* Stands for the ValueError version_from_string raises on a component
\* that is no integer (no version string tried here parses to it).
BadVersion == <<-1>>

\* version_from_string: tuple(map(int, firmware_string.split(".")))
version_from_string(v) ==
    CASE v = "0.9.9" -> <<0, 9, 9>>
      [] v = "1.0.0" -> <<1, 0, 0>>
      [] v = "1.1.0" -> <<1, 1, 0>>
      [] v = "2.0.0" -> <<2, 0, 0>>
      [] v = "2" -> <<2>>
      [] v = "1.1" -> <<1, 1>>
      [] OTHER -> BadVersion

\* The payloads the board is let answer GET Who_I_am with: the legacy name,
\* name and firmware, other keys, one field, three fields, fields without "=".
HandshakePayloads ==
    {LegacyPayload}
    \cup {KV("name", n, "firmware", v) : n \in {BOARD_NAME, "Other Board"}, v \in VersionStrings}
    \cup {KV("id", BOARD_NAME, "fw", "1.1.0"),
          << <<"name", BOARD_NAME>> >>,
          << <<"name", BOARD_NAME>>, <<"firmware", "1.0.0">>, <<"build", "7">> >>,
          << <<BOARD_NAME>>, <<"1.0.0">> >>}

\* The payload that comes with a failed Who_I_am exchange
NoPayload == << >>

\* Python's a >= b on tuples of integers
RECURSIVE TupleGE(_, _)
TupleGE(a, b) ==
    IF b = << >> THEN TRUE
    ELSE IF a = << >> THEN FALSE
    ELSE IF Head(a) # Head(b) THEN Head(a) > Head(b)
    ELSE TupleGE(Tail(a), Tail(b))

\* `payload, msg = send_cmd(GET, Who_I_am)` and `is_resp_ok(msg)` as
\* _verify_firmware uses them: the exchange succeeded.
HandshakeOk(r) == r.error = RES_CMD_SUCCESS

\* A handshake that lets every board through.
AcceptAll(payload, ok, min, fw) == [raised |-> "", board_firmware |-> <<0, 0, 0>>]

\* Isotope._verify_firmware on the payload and status it got, with
\* __minimum_firmware__ = min and self.board_firmware = fw before the call:
\* the exception raised ("" for none) and self.board_firmware afterwards.
verify_firmware(payload, ok, min, fw) ==
    IF ~ok THEN [raised |-> "IsotopeException", board_firmware |-> fw]
    ELSE IF payload = LegacyPayload
    THEN [raised |-> IF min # <<0, 0, 0>> THEN "IsotopeException" ELSE "",
          board_firmware |-> <<0, 0, 0>>]
    ELSE IF Len(payload) # 2 THEN [raised |-> "IsotopeException", board_firmware |-> fw]
    ELSE IF Len(payload[1]) < 2 THEN [raised |-> "IndexError", board_firmware |-> fw]
    ELSE IF payload[1][2] # BOARD_NAME
    THEN [raised |-> "IsotopeException", board_firmware |-> fw]
    ELSE IF Len(payload[2]) < 2 THEN [raised |-> "IndexError", board_firmware |-> fw]
    ELSE LET my_firmware == version_from_string(payload[2][2])
         IN  IF my_firmware = BadVersion
             THEN [raised |-> "ValueError", board_firmware |-> fw]
             ELSE [raised |-> IF TupleGE(my_firmware, min) THEN "" ELSE "IsotopeException",
                   board_firmware |-> my_firmware]

\* ------------------------------------------------------------------ connect
\* What connect() and disconnect() leave alone besides the threads' state.
connectIdle == <<motor, sinceQuery, power, board, pending, calls, initial, lastSeq,
                 motionDone, history, min_firmware>>
connectKeeps == <<connectIdle, who_i_am, waiting, portObjs>>

\* IsotopeCommsProtocolBase.connect: serial.Serial(...) opens the port, or
\* fails: then self.ser = None and the exception leaves connect().
ConnectOpen(opened) ==
    /\ pc["main"] = "idle"
    /\ phase = "constructed"
    /\ IF opened
       THEN /\ ser' = "open"
            /\ pc' = [pc EXCEPT !["main"] = "c_reader"]
            /\ UNCHANGED last
       ELSE /\ ser' = "none"
            /\ last' = [Op("connect", "Raised", None) EXCEPT !.why = "SerialException"]
            /\ UNCHANGED pc
    /\ UNCHANGED <<comms_busy, sequence, responses, sinceComm, cmd_sequence, tmp,
                   wait_for_answer, waitElapsed, result, resp_s, devVars, phase,
                   board_firmware, connectKeeps>>

\* threading.Thread.start() raises RuntimeError on a thread object that was
\* started before, whether that thread has ended or not: s is the state of
\* the thread, new the state of one never started.
StartedBefore(s, new) == s # new

\* IsotopeCommsProtocol.connect: self.serial_reader_thread.start(), with the
\* RuntimeError of a thread started before swallowed.
ConnectStartReader ==
    /\ pc["main"] = "c_reader"
    /\ pc' = [pc EXCEPT !["main"] = "c_handshake",
                        !["reader"] = IF StartedBefore(@, "r_new") THEN @ ELSE "r_loop"]
    /\ UNCHANGED <<commsVars, cmd_sequence, tmp, wait_for_answer, waitElapsed,
                   result, resp_s, devVars, last, phase, board_firmware, connectKeeps>>

\* _verify_firmware enters send_cmd(GET, Who_I_am): cmd_sequence = self.sequence
ConnectHandshake ==
    /\ pc["main"] = "c_handshake"
    /\ Len(wire) < MaxWire
    /\ pc' = [pc EXCEPT !["main"] = "s_spin"]
    /\ phase' = "handshake"
    /\ cmd_sequence' = [cmd_sequence EXCEPT !["main"] = sequence]
    /\ wait_for_answer' = [wait_for_answer EXCEPT !["main"] = TRUE]
    /\ result' = [result EXCEPT !["main"] = Running]
    /\ UNCHANGED <<commsVars, tmp, waitElapsed, resp_s, devVars, last,
                   board_firmware, connectKeeps>>

\* _verify_firmware once send_cmd is back, the board having sent payload:
\* an exception out of send_cmd or out of the verification leaves connect();
\* otherwise connect() goes on to the heartbeat.
ConnectVerify(payload) ==
    /\ pc["main"] = "c_verify"
    /\ who_i_am' = payload
    /\ IF result["main"] = Raised
       THEN /\ payload = NoPayload
            /\ last' = [Op("connect", "Raised", Raised) EXCEPT !.why = "send_cmd"]
            /\ phase' = "failed"
            /\ pc' = [pc EXCEPT !["main"] = "idle"]
            /\ UNCHANGED board_firmware
       ELSE LET ok == HandshakeOk(result["main"])
                v == verify_firmware(payload, ok, min_firmware, board_firmware)
            IN  /\ (IF ok THEN payload \in HandshakePayloads ELSE payload = NoPayload)
                /\ board_firmware' = v.board_firmware
                /\ IF v.raised # ""
                   THEN /\ last' = [Op("connect", "Raised", result["main"])
                                     EXCEPT !.why = v.raised]
                        /\ phase' = "failed"
                        /\ pc' = [pc EXCEPT !["main"] = "idle"]
                   ELSE /\ phase' = "verified"
                        /\ pc' = [pc EXCEPT !["main"] = "c_heartbeat"]
                        /\ UNCHANGED last
    /\ UNCHANGED <<commsVars, cmd_sequence, tmp, wait_for_answer, waitElapsed,
                   result, resp_s, devVars, connectIdle, waiting, portObjs>>

\* Isotope.connect: `if self.comms.is_connected(): self._heartbeat_thread.start()`
\* and return True; the RuntimeError of a heartbeat thread started before is
\* no IsotopeException and leaves connect().
ConnectStartHeartbeat ==
    /\ pc["main"] = "c_heartbeat"
    /\ IF is_connected /\ StartedBefore(pc["hb"], "hb_new")
       THEN /\ pc' = [pc EXCEPT !["main"] = "idle"]
            /\ phase' = "failed"
            /\ last' = [Op("connect", "Raised", result["main"])
                          EXCEPT !.why = "RuntimeError"]
       ELSE /\ pc' = [pc EXCEPT !["main"] = "idle",
                               !["hb"] = IF is_connected THEN "hb_loop" ELSE @]
            /\ phase' = "connected"
            /\ last' = Op("connect", "True", result["main"])
    /\ UNCHANGED <<commsVars, cmd_sequence, tmp, wait_for_answer, waitElapsed,
                   result, resp_s, devVars, board_firmware, connectKeeps>>

\* The object right after Isotope.__init__: no port, no thread started.
InitLifecycle ==
    /\ ser = "none"
    /\ comms_busy = FALSE
    /\ sequence = 0
    /\ initial = 0
    /\ responses = EmptyRegistry
    /\ sinceComm = 0
    /\ pc = [t \in Threads |-> CASE t = "main" -> "idle"
                                 [] t = "hb" -> "hb_new"
                                 [] OTHER -> "r_new"]
    /\ cmd_sequence = [t \in Senders |-> 0]
    /\ tmp = [t \in Senders |-> 0]
    /\ wait_for_answer = [t \in Senders |-> TRUE]
    /\ waitElapsed = [t \in Senders |-> 0]
    /\ result = [t \in Senders |-> None]
    /\ resp_s = None
    /\ wire = <<>>
    /\ inbuf = <<>>
    /\ devNext = 1
    /\ PortsConstructed
    /\ history = NoHistory
    /\ phase = "constructed"
    /\ min_firmware \in MinFirmwares
    /\ board_firmware = << >>
    /\ who_i_am = NoPayload
    /\ waiting = NotWaiting
    /\ containers = [kind \in DOMAIN max_port_count |-> Construct(kind)]
    /\ item = NoItem
    /\ writer = <<>>
    /\ ports = [i \in MotorIds |-> PortInit]
    /\ moving = [i \in MotorIds |-> NotMoving]

ConnectStep ==
    \/ \E opened \in BOOLEAN : ConnectOpen(opened)
    \/ ConnectStartReader
    \/ ConnectHandshake
    \/ \E payload \in HandshakePayloads \cup {NoPayload} : ConnectVerify(payload)
    \/ ConnectStartHeartbeat

NextLifecycle ==
    \/ ConnectStep
    \/ SenderStep("main")
    \/ DisconnectClose
    \/ DisconnectJoin
    \/ HeartbeatStep
    \/ ReaderStep
    \/ BoardStep
    \/ Tick

SpecLifecycle == InitLifecycle /\ [][NextLifecycle]_vars

\* connect() called again on the object once a disconnect() has returned:
\* IsotopeCommsProtocolBase.connect builds a new serial.Serial, or fails,
\* and the thread objects are the ones made in __init__.
ConnectAgain(opened) ==
    /\ pc["main"] = "disc_done"
    /\ phase \in {"connected", "failed"}
    /\ IF opened
       THEN /\ ser' = "open"
            /\ pc' = [pc EXCEPT !["main"] = "c_reader"]
            /\ phase' = "reopened"
            /\ UNCHANGED last
       ELSE /\ ser' = "none"
            /\ pc' = [pc EXCEPT !["main"] = "idle"]
            /\ last' = [Op("connect", "Raised", None) EXCEPT !.why = "SerialException"]
            /\ UNCHANGED phase
    /\ UNCHANGED <<comms_busy, sequence, responses, sinceComm, cmd_sequence, tmp,
                   wait_for_answer, waitElapsed, result, resp_s, devVars,
                   board_firmware, connectKeeps>>

NextReconnect ==
    \/ NextLifecycle
    \/ \E opened \in BOOLEAN : ConnectAgain(opened)

\* connect(), disconnect() and connect() again, any number of times.
SpecReconnect == InitLifecycle /\ [][NextReconnect]_vars

\* ---------------------------------------------- configure and the transport
\* The argument triples (resolution, current, rpm) configure() is called
\* with: valid ones, and one negative value in each place.
ConfigureArgs ==
    {<<7, 100, 100>>, <<2, 50, 60>>, <<-1, 100, 100>>, <<7, -1, 100>>, <<7, 100, -1>>}

\* configure() and enable() on a port object that is connected, was never
\* connected, or has been disconnected.
InitConfigure == InitSession \/ (InitLifecycle /\ min_firmware = <<0, 0, 0>>)

NextConfigure ==
    \/ \E a \in ConfigureArgs : MotorConfigure(a[1], a[2], a[3])
    \/ \E a \in ConfigureArgs, fault \in BOOLEAN :
          MotorConfigureUnsent(a[1], a[2], a[3], fault)
    \/ is_connected /\ MotorEnable
    \/ PortClose

SpecConfigure == InitConfigure /\ [][NextConfigure]_vars

\* ----------------------------------------------------- the registry alone
\* The registry seen by itself: the reader's insert and a caller's
\* retrieve_response, one whole operation at a time.
registryIdle == <<ser, comms_busy, sequence, sinceComm, thrVars, devVars, motor,
                  sinceQuery, power, board, pending, calls, initial, lastSeq,
                  motionDone>>

\* The reader unpacked the line r: self.responses[resp.sequence] = resp
RegistryInsert(r) ==
    /\ history[r.seq].consumed \/ Len(history[r.seq].entries) < MaxPerSeq
    /\ responses' = Insert(responses, r)
    /\ history' = [history EXCEPT ![r.seq] =
                     IF @.consumed THEN [entries |-> <<r>>, consumed |-> FALSE]
                     ELSE [@ EXCEPT !.entries = Append(@, r)]]
    /\ UNCHANGED <<last, phase, min_firmware, board_firmware, who_i_am, waiting,
                   portObjs, registryIdle>>

\* A caller's retrieve_response(s)
RegistryTake(s) ==
    /\ last' = Op("retrieve_response",
                  IF s \in DOMAIN responses THEN "Response" ELSE "None",
                  retrieve_response(responses, s))
    /\ responses' = AfterRetrieve(responses, s)
    /\ history' = IF s \in DOMAIN responses
                  THEN [history EXCEPT ![s].consumed = TRUE]
                  ELSE history
    /\ UNCHANGED <<phase, min_firmware, board_firmware, who_i_am, waiting, portObjs,
                   registryIdle>>

NextRegistry ==
    \/ \E r \in RegReplies : RegistryInsert(r)
    \/ \E s \in RegSeqs : RegistryTake(s)

SpecRegistry == InitSession /\ [][NextRegistry]_vars

\* ------------------------------------------------------------------ claims
\* Inside the section guarded by _comms_busy.
InSection(t) == IF t = "reader" THEN pc[t] = "r_readline" ELSE pc[t] = "s_write"

\* C1: no two commands written to the transport carry the same sequence
\* number (fewer than 65536 commands are ever written here).
C1_UniqueSequenceOnWire ==
    \A i, j \in 1..Len(wire) : i # j => wire[i] # wire[j]

\* C2: at most one thread at a time is inside the section guarded by
\* _comms_busy.
C2_OneThreadInSection ==
    Cardinality({t \in Threads : InSection(t)}) <= 1

\* C3: once disconnect() has been invoked, the reader exits its loop and
\* disconnect() returns.
C3_DisconnectReturns ==
    (pc["main"] = "d_join") ~> (pc["main"] = "disc_done" /\ pc["reader"] = "r_done")

\* C4: after disconnect() has returned nothing is inserted into the registry:
\* every entry it holds afterwards was already there, unchanged.
C4_NoInsertAfterDisconnect ==
    [][pc["main"] = "disc_done" =>
         /\ DOMAIN responses' \subseteq DOMAIN responses
         /\ \A s \in DOMAIN responses' : responses'[s] = responses[s]]_vars

\* disconnect() has returned while a reply line is still unread on the
\* transport and the registry still holds an entry.
C4_Witness ==
    /\ pc["main"] = "disc_done"
    /\ Len(inbuf) > 0
    /\ DOMAIN responses # {}

\* C9: a send with wait_for_answer=True that used sequence s ends with a
\* Response stored under s, or with None and then only once the full
\* resp_timeout has elapsed; it never ends any other way.
C9_WaitReturnsReplyOrTimeout ==
    [][\A t \in Senders :
         (Waiting(t) /\ ~Waiting(t)') =>
            \/ IsResponse(result'[t]) /\ result'[t].seq = cmd_sequence[t]
            \/ result'[t] = None /\ waitElapsed[t] >= RespTimeout]_vars

\* The board's reply to GET Motor_busy says "not busy".
SaysNotBusy(r) == r.error = RES_CMD_SUCCESS /\ r.payload \in {"0", "#0"}

\* C5: is_motion_completed returns True only when the motor was not busy,
\* when it took Succeeded or Aborted under the in-flight sequence, or when
\* the board answered the fallback query with "not busy"; never on a
\* timed-out or errored answer to the fallback query.
C5_TrueOnlyWhenCompleted ==
    (last.op = "is_motion_completed" /\ last.ret = "True") =>
        \/ last.why = "idle"
        \/ last.why = "taken" /\ last.resp.error \in {RES_CMD_SUCCESS, RES_CMD_ABORT}
        \/ last.why = "fallback" /\ SaysNotBusy(last.fb)

\* The in-flight sequence holds a completion notification.
CompletionArrived ==
    /\ motor.current_sequence \in DOMAIN responses
    /\ responses[motor.current_sequence].error \in {RES_CMD_SUCCESS, RES_CMD_ABORT}

\* C6: after an acknowledged rotate, a call of is_motion_completed made while
\* the board is still moving and before the second reply has arrived returns
\* False; a call made once the second reply is in the registry returns True.
C6_FalseBeforeSecondReply ==
    [][(MotorIsMotionCompleted /\ motor.busy) =>
         /\ (board.moving /\ board.seq = motor.current_sequence
               /\ motor.current_sequence \notin DOMAIN responses)
            => last'.ret = "False"
         /\ CompletionArrived => last'.ret = "True"]_vars

\* C7: taking Succeeded or Aborted on the in-flight sequence clears busy, and
\* once is_motion_completed has returned True for a motion every later call
\* returns True, taking nothing and sending nothing, until the next rotate is
\* acknowledged.
C7_StaysCompleted ==
    [][MotorIsMotionCompleted =>
         /\ last'.why = "taken" => ~motor'.busy
         /\ motionDone =>
              /\ last'.ret = "True"
              /\ responses' = responses
              /\ sequence' = sequence]_vars

\* C8: enable(pwm) with a valid pwm returns True, with the cached PWM value
\* updated, only when the reply is Succeeded; for every other reply (ACK, an
\* error, no reply) it returns False and get_pwm() is unchanged.
C8_EnableOnlyOnSucceeded ==
    [][(last'.op = "power_enable" /\ calls' = calls + 1) =>
         IF is_resp_ok(last'.resp) = "Succeeded"
         THEN last'.ret = "True"
         ELSE last'.ret = "False" /\ power'.current_pwm = power.current_pwm]_vars

\* C10: the k-th command of a session carries (initial + k) mod 65536, the
\* value after 65535 is 0, and the counter stays within 0..65535.
C10_SequenceMonotonicModulo ==
    /\ sequence \in 0..SeqMax
    /\ sequence = (initial + calls) % (SeqMax + 1)
    /\ calls > 0 => lastSeq = (initial + calls - 1) % (SeqMax + 1)

\* A command has carried 65535 and the counter is back at 0.
C10_Witness == calls > 0 /\ lastSeq = SeqMax /\ sequence = 0

\* The reply most recently inserted under s and not taken yet, or None.
Newest(s) ==
    IF history[s].consumed \/ history[s].entries = <<>> THEN None
    ELSE history[s].entries[Len(history[s].entries)]

\* C11: the registry holds one entry per sequence number, the one inserted
\* last; a take on a sequence returns the most recently inserted reply (never
\* an older one) and leaves no entry under that sequence.
C11_LastWriteWins ==
    [][\A s \in RegSeqs :
         /\ (s \in DOMAIN responses') = (Newest(s)' # None)
         /\ (s \in DOMAIN responses') => responses'[s] = Newest(s)'
         /\ RegistryTake(s) => (last'.resp = Newest(s) /\ s \notin DOMAIN responses')]_vars

\* A take has returned the second of two different replies inserted under
\* one sequence.
C11_Witness ==
    \E s \in RegSeqs :
        /\ last.op = "retrieve_response"
        /\ history[s].consumed
        /\ Len(history[s].entries) = 2
        /\ history[s].entries[1] # history[s].entries[2]
        /\ last.resp = history[s].entries[2]

\* C12: a take removes the entry it returns and nothing else: when a thread
\* that found its sequence in the registry goes on to remove it, the entry is
\* still there (the take does not fail), it is gone afterwards (no second
\* taker can be handed it), and every other sequence's entry is untouched.
C12_TakeIsAtomic ==
    [][\A t \in Senders :
         WaitPop(t) =>
            /\ cmd_sequence[t] \in DOMAIN responses
            /\ result'[t] = responses[cmd_sequence[t]]
            /\ cmd_sequence[t] \notin DOMAIN responses'
            /\ \A k \in DOMAIN responses \ {cmd_sequence[t]} :
                  k \in DOMAIN responses' /\ responses'[k] = responses[k]]_vars

\* C13: once disconnect() has returned the heartbeat thread is not running
\* any more: it has ended, or at most it stands at its loop test, where it
\* ends at its next step; it is not inside send_cmd, neither writing nor
\* waiting for a reply.
C13_HeartbeatStoppedByDisconnect ==
    pc["main"] = "disc_done" => pc["hb"] \in {"hb_done", "hb_loop"}

C15_HeartbeatFireAndForget ==
    /\ pc["hb"] \in {"s_spin", "s_set", "s_write", "s_load", "s_store", "s_wrap"}
          => ~wait_for_answer["hb"]
    /\ ~Waiting("hb")

\* C16: a heartbeat frame is written only when no command has been written,
\* by any thread, during the heart_beat_interval before it.
C16_HeartbeatOnlyWhenQuiet ==
    [][(pc["hb"] = "s_write" /\ pc'["hb"] = "s_load") => ~(sinceComm < HbInterval)]_vars

\* C17: a transport error raised while the heartbeat sends leaves the
\* heartbeat thread in its loop, and the heartbeat thread ends only once the
\* connection has been closed.
C17_HeartbeatEndsOnlyOnDisconnect ==
    [][/\ (pc["hb"] = "s_write" /\ result'["hb"] = Raised) => pc'["hb"] = "hb_loop"
       /\ (pc["hb"] # "hb_done" /\ pc'["hb"] = "hb_done") => ~is_connected]_vars

Acceptable(payload, min) ==
    \/ payload = LegacyPayload /\ min = <<0, 0, 0>>
    \/ /\ Len(payload) = 2
       /\ Len(payload[1]) = 2 /\ Len(payload[2]) = 2
       /\ payload[1][1] = "name" /\ payload[1][2] = BOARD_NAME
       /\ payload[2][1] = "firmware"
       /\ LET v == version_from_string(payload[2][2])
          IN  Len(v) = 3 /\ TupleGE(v, min)

\* C19: _verify_firmware lets connect() go on exactly when the Who_I_am
\* exchange succeeded with an acceptable reply (the legacy name against
\* minimum 0.0.0, or the board name with a version a.b.c not below the
\* minimum); in every other case connect() raises.
C19_HandshakeAcceptsExactly ==
    [][(pc["main"] = "c_verify" /\ pc'["main"] # "c_verify") =>
          /\ (phase' = "verified") <=>
                (HandshakeOk(result["main"]) /\ Acceptable(who_i_am', min_firmware))
          /\ (phase' # "verified") =>
                (phase' = "failed" /\ last'.op = "connect" /\ last'.ret = "Raised")]_vars

RotateOps == {"rotate_by_steps", "rotate_by_degrees"}

C21_EnableRetriesConfigure ==
    [][(calls' > calls /\ last'.op = "enable") =>
          LET n == Len(last'.sent)
          IN  /\ n >= 1 /\ n <= 4
              /\ last'.sent[n] = SEC_MOTOR_ENABLE
              /\ SubSeq(last'.sent, 1, n - 1) = SubSeq(ConfigureSections, 1, n - 1)
              /\ calls' = calls + n
              /\ ~motor.configured => n >= 2
              /\ motor.configured => n = 1]_vars

\* enable() pushed the whole configuration a failed configure() had left
\* pending, and then enabled the motor.
C21_Witness ==
    /\ last.op = "enable"
    /\ last.ret = "True"
    /\ last.sent = Append(ConfigureSections, SEC_MOTOR_ENABLE)
    /\ motor.configured /\ ~motor.configure_requested
    /\ motor.enabled

\* C22: enable() and disable() change the motor only on a Succeeded reply:
\* then enable sets enabled, disable clears it, both clear busy and return
\* True; on any other reply they return False and leave enabled and busy as
\* they were. With busy cleared, is_motion_completed() returns True at once.
C22_EnableDisableOnSucceeded ==
    [][/\ (calls' > calls /\ last'.op \in {"enable", "disable"}) =>
            IF is_resp_ok(last'.resp) = "Succeeded"
            THEN /\ last'.ret = "True"
                 /\ motor'.enabled = (last'.op = "enable")
                 /\ ~motor'.busy
            ELSE /\ last'.ret = "False"
                 /\ motor'.enabled = motor.enabled
                 /\ motor'.busy = motor.busy
       /\ (~motor.busy /\ last' # last /\ last'.op = "is_motion_completed") =>
            /\ last'.ret = "True"
            /\ UNCHANGED <<calls, sequence, responses, motor>>]_vars

\* disable() succeeded as the command right after an acknowledged rotation,
\* which had left the motor busy: the motor is disabled and no longer busy.
C22_Witness ==
    /\ last.op = "disable"
    /\ last.ret = "True"
    /\ motor.current_sequence > 0
    /\ last.resp.seq = motor.current_sequence + 1
    /\ ~motor.enabled
    /\ ~motor.busy

\* C23: rotate_by_steps on an enabled motor returns True exactly when the
\* reply it took for its command is ACK or SUC; on ACK it sets busy and
\* stores the command's own sequence as the sequence in flight; on every
\* other reply, and on none, busy and the sequence in flight stay as they
\* were. Nothing else of the motor changes.
C23_RotateResult ==
    [][(calls' > calls /\ last'.op \in RotateOps) =>
          LET e == last'.resp.error
          IN  /\ motor.enabled
              /\ last'.sent = <<SEC_MOTOR_STEP>>
              /\ calls' = calls + 1
              /\ last'.ret \in {"True", "False"}
              /\ (last'.ret = "True") <=> (e \in {RES_CMD_ACK, RES_CMD_SUCCESS})
              /\ IF e = RES_CMD_ACK
                 THEN motor' = [motor EXCEPT !.busy = TRUE, !.current_sequence = sequence]
                 ELSE motor' = motor]_vars

\* rotate_by_steps was acknowledged: the motor is busy under the sequence
\* the command carried.
C23_Witness ==
    /\ last.op = "rotate_by_steps"
    /\ last.ret = "True"
    /\ last.resp.error = RES_CMD_ACK
    /\ motor.busy
    /\ motor.current_sequence = lastSeq
    /\ lastSeq > 0

\* The cached field each setter stands for
SetterField ==
    [set_rpm |-> "rpm", set_current |-> "current", set_resolution |-> "resolution"]

\* C24: set_rpm, set_current and set_resolution each cache the value they
\* were called with, and return True, only when the reply is Succeeded; on
\* any other reply, and on none, they return False and rpm, current and
\* resolution read back what they held before. No other field changes.
C24_SettersCacheOnSuccess ==
    [][(calls' > calls /\ last'.op \in DOMAIN SetterField) =>
          IF last'.resp.error = RES_CMD_SUCCESS
          THEN /\ last'.ret = "True"
               /\ motor' = [motor EXCEPT ![SetterField[last'.op]] = last'.arg[1]]
          ELSE /\ last'.ret = "False"
               /\ motor' = motor]_vars

\* set_current(9) succeeded on a configured motor: the cached current is 9,
\* rpm and resolution are what configure() stored.
C24_Witness ==
    /\ last.op = "set_current"
    /\ last.ret = "True"
    /\ last.arg = <<9>>
    /\ motor.current = 9
    /\ motor.rpm = 100
    /\ motor.resolution = 7

HasNegative(arg) == \E i \in DOMAIN arg : arg[i] < 0

\* C25: configure() with a negative argument raises ValueError before
\* anything else happens: nothing is written, and the stored parameters and
\* the configured and enabled flags are what they were.
C25_ConfigureRejectsNegative ==
    [][(last' # last /\ last'.op = "configure" /\ HasNegative(last'.arg)) =>
          /\ last'.ret = "Raised"
          /\ last'.why = "ValueError"
          /\ last'.sent = <<>>
          /\ UNCHANGED <<motor, sequence, responses, calls, lastSeq>>]_vars

\* configure(7, -1, 100) raised on a motor that configure(2, 50, 60) had
\* configured and enable() had enabled: the motor still holds 2, 50, 60.
C25_Witness ==
    /\ last.op = "configure"
    /\ last.arg = <<7, -1, 100>>
    /\ last.ret = "Raised"
    /\ motor.resolution = 2 /\ motor.current = 50 /\ motor.rpm = 60
    /\ motor.configured
    /\ motor.enabled

\* The motor holds the parameters configure() was called with.
Stored(m, arg) == m.resolution = arg[1] /\ m.current = arg[2] /\ m.rpm = arg[3]

\* C26: configure() with valid parameters never raises, whatever goes wrong
\* while the parameters are pushed (error reply, no reply, a command that
\* cannot be written); when the push did not succeed the motor is left with
\* the configuration pending: not configured, the parameters stored.
C26_ConfigureNeverRaises ==
    [][(last' # last /\ last'.op = "configure" /\ ~HasNegative(last'.arg)) =>
          /\ last'.ret # "Raised"
          /\ Stored(motor', last'.arg)
          /\ ~motor'.configured => motor'.configure_requested]_vars

\* C27: configure() with non-negative parameters whose three SET commands
\* all succeed returns True, and resolution, current and rpm then read back
\* the values passed in.
C27_ConfigureReturnsTrue ==
    [][(last' # last /\ last'.op = "configure" /\ ~HasNegative(last'.arg)
            /\ motor'.configured) =>
          /\ last'.ret = "True"
          /\ last'.sent = ConfigureSections
          /\ Stored(motor', last'.arg)]_vars

\* The steady-state operations, each with the state it is called in.
SteadyCall(l, m) ==
    \/ l.op = "enable" /\ m.configured
    \/ l.op \in {"disable", "set_rpm", "set_current", "set_resolution"}
    \/ l.op = "rotate_by_steps" /\ m.enabled
    \/ l.op = "is_motion_completed"

\* The command the operation sent got an error reply or none in time.
SteadyFailed(l) ==
    IF l.op = "is_motion_completed"
    THEN l.why = "fallback" /\ l.fb.error \in {RES_ERR_GEN, "None"}
    ELSE l.sent # <<>> /\ l.resp.error \in {RES_ERR_GEN, "None"}

\* C28: in the steady-state control path (enable on a configured motor,
\* disable, the setters, rotate_by_steps on an enabled motor,
\* is_motion_completed) no exception reaches the caller, and an error reply
\* and a missing reply both come back as a failed result.
C28_SteadyStateFailures ==
    [][(last' # last /\ SteadyCall(last', motor)) =>
          /\ last'.ret # "Raised"
          /\ SteadyFailed(last') => last'.ret = "False"]_vars

\* C29: wait_until_motion_completed(timeout, check_frequency) returns as soon
\* as is_motion_completed() returns True; with timeout > 0 it returns once the
\* timeout has elapsed even if the motion never completes, and so always
\* ends; with timeout <= 0 it returns only when is_motion_completed() returns
\* True.
C29_WaitUntilMotionCompleted ==
    /\ [][(waiting.pc = "test" /\ waiting'.pc # "test") =>
            /\ last'.op = "is_motion_completed"
            /\ last'.ret = "True" => waiting'.pc = "idle"
            /\ (waiting.timeout > 0 /\ waiting'.elapsed >= waiting.timeout)
                   => waiting'.pc = "idle"
            /\ waiting'.pc = "idle" =>
                   \/ last'.ret = "True"
                   \/ waiting.timeout > 0 /\ waiting'.elapsed >= waiting.timeout]_vars
    /\ (waiting.pc # "idle" /\ waiting.timeout > 0) ~> (waiting.pc = "idle")

\* A wait with a timeout has returned on the timeout, the motion not completed.
C29_Witness ==
    /\ waiting.pc = "idle"
    /\ waiting.timeout > 0
    /\ waiting.elapsed >= waiting.timeout
    /\ last.op = "is_motion_completed"
    /\ last.ret = "False"
    /\ motor.busy

\* C30: for each of the five port containers (4 motor, 4 PWM, 3 power, 3 ADC,
\* 3 temperature ports) and every integer key, container[key] returns the
\* port whose id is key when 0 <= key < N and raises the out-of-range error
\* for every other key, negative ones included; the containers never change.
C30_ContainerIndexing ==
    /\ [](item.kind # "none" =>
            IF 0 <= item.key /\ item.key < max_port_count[item.kind]
            THEN item.raised = "None" /\ item.id = item.key
            ELSE item.raised = "IndexError")
    /\ [][containers' = containers]_vars

\* C31: PWMOutputPort.set_pwm and PowerOutputPort.enable called with a value
\* outside 0..1024 raise ValueError, write no command and change no port
\* state; set_RGB_colour sends only channel values clamped into 0..255.
C31_RangesValidatedBeforeSending ==
    [][last' # last =>
         /\ (/\ last'.op \in {"power_enable", "set_pwm"}
             /\ (last'.arg[1] < 0 \/ last'.arg[1] > 1024))
               => /\ last'.ret = "Raised"
                  /\ last'.values = <<>>
                  /\ calls' = calls
                  /\ sequence' = sequence
                  /\ responses' = responses
                  /\ power' = power
         /\ last'.op = "set_RGB_colour"
               => /\ Len(last'.values) = 3
                  /\ \A i \in 1..3 :
                       /\ last'.values[i] \in 0..255
                       /\ last'.arg[i] < 0 => last'.values[i] = 0
                       /\ last'.arg[i] > 255 => last'.values[i] = 255
                       /\ last'.arg[i] \in 0..255 => last'.values[i] = last'.arg[i]]_vars

\* set_pwm has raised on a value above the range after set_RGB_colour had
\* sent its commands.
C31_Witness ==
    /\ last.op = "set_pwm"
    /\ last.ret = "Raised"
    /\ last.arg = <<1025>>
    /\ calls >= 3

\* C32: an incoming line that cannot be parsed as a reply record becomes a
\* synthetic errored Response (error: non-JSON response, empty payload)
\* instead of an exception; nothing is written to the device and the reader
\* goes on.
C32_MalformedLineBecomesErroredReply ==
    [][(/\ pc["reader"] = "r_insert"
        /\ pc'["reader"] # "r_insert"
        /\ ~IsResponse(resp_s))
          => /\ unpack_response(resp_s).error = INC_ERR_NON_JSON_RESPONSE
             /\ unpack_response(resp_s).payload = ""
             /\ wire' = wire
             /\ pc'["reader"] = "r_loop"]_vars

C33_FallbackEventuallyTrue ==
    (/\ waiting.pc # "idle"
     /\ waiting.timeout <= 0
     /\ motor.busy
     /\ ~board.moving
     /\ pending = None
     /\ motor.current_sequence \notin DOMAIN responses
     /\ calls < MaxCalls)
      ~> (/\ waiting.pc = "idle"
          /\ last.op = "is_motion_completed"
          /\ last.ret = "True")

\* A wait without timeout has returned on the board's answer to the query,
\* no notification having been found.
C33_Witness ==
    /\ waiting.pc = "idle"
    /\ waiting.timeout <= 0
    /\ motor.busy
    /\ ~board.moving
    /\ pending = None
    /\ last.op = "is_motion_completed"
    /\ last.why = "fallback"
    /\ last.resp = None
    /\ last.fb.error = RES_CMD_SUCCESS
    /\ last.ret = "True"

\* C35: with the heartbeat thread, the reader thread and the caller's thread
\* running side by side (and far fewer than 65536 commands), every reply
\* handed to a waiting send is the board's answer to that very command: the
\* caller never gets the answer to a heartbeat, the heartbeat thread never
\* takes the caller's, and the take never fails.
C35_RepliesReachTheirSender ==
    [][\A t \in Senders :
         (pc[t] = "w_pop" /\ pc'[t] # "w_pop") =>
            /\ IsResponse(result'[t])
            /\ result'[t].seq = cmd_sequence[t]
            /\ result'[t].payload = t]_vars

\* C36: _comms_busy is never left set. It is set only while a thread is
\* between setting and clearing it (a thread waiting for a reply does not
\* hold it), and every path that sets it, a write or a read that raises
\* included, clears it again: a set flag is always cleared in the end.
C36_BusyFlagAlwaysCleared ==
    /\ [](comms_busy => \E t \in Threads : InSection(t))
    /\ [](\A t \in Senders : Waiting(t) => ~InSection(t))
    /\ comms_busy ~> ~comms_busy

\* A write has raised with the flag set, and the flag is clear again while
\* the reader stands before its read.
C36_Witness ==
    /\ result["main"] = Raised
    /\ wire = <<>>
    /\ ser = "open"
    /\ ~comms_busy
    /\ pc["reader"] = "r_avail"

\* C37: a connect() that follows a completed connect() and a disconnect()
\* on the same object works again: it does not raise because of the state
\* of the threads, and when it ends the reader thread and the heartbeat
\* thread are running (so that replies of the board reach the registry).
C37_ReconnectWorks ==
    [][(phase \in {"reopened", "handshake", "verified"} /\ pc'["main"] = "idle"
          /\ StartedBefore(pc["hb"], "hb_new")) =>
            /\ last'.ret = "True"
            /\ pc'["reader"] \notin {"r_new", "r_done"}
            /\ pc'["hb"] \notin {"hb_new", "hb_done"}]_vars

\* C38: a connect() that fails in the firmware handshake (no reply, wrong
\* board name, firmware below the minimum) tears the connection down before
\* it raises: once it has raised, the port is closed and the reader thread
\* is not running.
C38_FailedHandshakeTearsDown ==
    [][(phase = "handshake" /\ phase' = "failed") =>
            /\ last'.op = "connect" /\ last'.ret = "Raised"
            /\ ser' # "open"
            /\ pc'["reader"] \in {"r_new", "r_done"}]_vars

\* C39: in every state the public operations of a motor port can reach, a
\* motor tracked as moving is enabled (busy implies enabled): a disable()
\* that succeeds clears both flags, and only an enabled motor is ever
\* marked busy.
C39_BusyImpliesEnabled ==
    /\ [](motor.busy => motor.enabled)
    /\ [][(last'.op = "disable" /\ last'.ret = "True") =>
             (~motor'.enabled /\ ~motor'.busy)]_vars
    /\ [][(~motor.busy /\ motor'.busy) => (motor.enabled /\ motor'.enabled)]_vars

\* A moving motor has been disabled with success.
C39_Witness ==
    /\ last.op = "disable"
    /\ last.ret = "True"
    /\ ~motor.enabled
    /\ ~motor.busy
    /\ pending # None

\* C40: the motor ports are independent. A call on one port changes the
\* enabled flag, the busy flag and the in-flight sequence of that port
\* only, and with two motors moving at once a port's is_motion_completed()
\* never takes the completion notice of the other motor.
C40_PortsIndependent ==
    /\ [][\A j \in MotorIds : ports'[j] # ports[j] => last'.arg = <<j>>]_vars
    /\ [][(last'.op = "is_motion_completed" /\ last'.why = "taken") =>
             \A j \in MotorIds \ {last'.arg[1]} : last'.resp.payload # MotorTag(j)]_vars
====
